---- MODULE Spec2Model ----
(***************************************************************************)
(* Model of the module graph loader of core/modules.rs: the ModuleMap      *)
(* registry (handles, info, by_name, next_load_id and the dynamic import   *)
(* queues) and the RecursiveModuleLoad state machine that drives one graph *)
(* load, with the ModuleLoader as a table from specifier to fetch result.  *)
(***************************************************************************)
EXTENDS Integers, Sequences, FiniteSets, TLC

\* ------------------------------------------------------------------------
\* Bounds
\* ------------------------------------------------------------------------

\* Number of RecursiveModuleLoads created in one behaviour.
MaxLoads == 2

\* ------------------------------------------------------------------------
\* Data model
\* ------------------------------------------------------------------------

\* Absolute specifiers the loader knows ("a" stands for file:///a.js).
Specs == {"a", "b", "c"}

\* A specifier that loader.resolve rejects.
Unresolvable == "?"

\* Referrer of every dynamic import (the script that calls import()).
EntryReferrer == "entry"

ModuleType == {"JavaScript", "Json"}

AssertedModuleType == {"JavaScriptOrWasm", "Json"}

\* Option::None for a ModuleId, and for the optional type fields of a load.
NoId == -1

NoType == "None"

\* A conversion that takes every module type for JavaScriptOrWasm.
AmtJavaScriptOrWasm(module_type) == "JavaScriptOrWasm"

\* impl From<ModuleType> for AssertedModuleType
AmtFromModuleType(module_type) ==
  IF module_type = "JavaScript" THEN "JavaScriptOrWasm" ELSE "Json"

ModuleRequest(specifier, amt) ==
  [specifier |-> specifier, asserted_module_type |-> amt]

Requests ==
  {ModuleRequest(s, amt) : s \in Specs, amt \in AssertedModuleType}

\* The import assertions of an import, as parse_import_assertions returns
\* them: a map from assertion keys to values.
NoAssertions == [key \in {} |-> ""]

\* An import statement as the engine enumerates it: the specifier text and
\* its assertions.
ImportWith(specifier, assertions) ==
  [specifier |-> specifier, assertions |-> assertions]

\* An import with the given value of its `type` assertion, and without
\* assertions for "".
Import(specifier, type_assertion) ==
  ImportWith(specifier,
             IF type_assertion = "" THEN NoAssertions
             ELSE ("type" :> type_assertion))

SUPPORTED_TYPE_ASSERTIONS == {"json"}

\* A validation that accepts every assertion.
validate_any_assertions(import) == TRUE

\* validate_import_assertions: TRUE when no exception is thrown.
validate_import_assertions(import) ==
  \A key \in DOMAIN import.assertions :
    ~(key = "type" /\ import.assertions[key] \notin SUPPORTED_TYPE_ASSERTIONS)

get_asserted_module_type_from_assertions(import) ==
  IF "type" \in DOMAIN import.assertions
    THEN IF import.assertions["type"] = "json" THEN "Json"
         ELSE "JavaScriptOrWasm"
    ELSE "JavaScriptOrWasm"

\* ------------------------------------------------------------------------
\* The loader: resolve and load
\* ------------------------------------------------------------------------

\* The strings with the prefix "internal:", and every string that is passed
\* as a specifier or as a referrer: the absolute file URLs of Specs and of
\* EntryReferrer, the internal URLs, ".", and Unresolvable, which is not a
\* URL.
InternalSpecs == {"internal:x", "internal:y"}

Strings == Specs \cup InternalSpecs \cup {EntryReferrer, ".", Unresolvable}

NoScheme == "None"

\* ModuleSpecifier::parse(s) followed by scheme(): the scheme of the URL, or
\* NoScheme where s does not parse as a URL.
UrlScheme(s) ==
  CASE s \in InternalSpecs -> "internal"
    [] s \in Specs \cup {EntryReferrer} -> "file"
    [] OTHER -> NoScheme

\* specifier.starts_with("internal:")
starts_with_internal(s) == s \in InternalSpecs

\* The result of a resolution: the resolved specifier or an error; Panicked
\* is the call that never returns because it panics.
ResolveOk(specifier) == [ok |-> TRUE, specifier |-> specifier, error |-> ""]

ResolveErr(specifier, error) ==
  [ok |-> FALSE, specifier |-> specifier, error |-> error]

Panicked == [ok |-> FALSE, specifier |-> "", error |-> "panic"]

CannotLoadInternal == "Cannot load internal module from external code"

\* loader.resolve of the embedder's loader: the URLs of the model are
\* absolute already, so resolution returns the specifier itself, and it
\* fails on a string that is not a URL.
LoaderResolve(specifier, referrer) ==
  IF UrlScheme(specifier) # NoScheme
    THEN ResolveOk(specifier)
    ELSE ResolveErr(specifier, "resolve")

\* NoopModuleLoader::resolve
NoopResolve(specifier, referrer) ==
  ResolveErr(specifier, "Module loading is not supported")

\* The module map of the model is created by a runtime that has loaded no
\* snapshot.
snapshot_loaded_and_not_snapshotting == FALSE

\* resolve_helper without the denial of the internal scheme.
resolve_helper_unguarded(flag, specifier, referrer) ==
  LoaderResolve(specifier, referrer)

resolve_helper(flag, specifier, referrer) ==
  IF flag /\ starts_with_internal(specifier)
    THEN ResolveErr(specifier, CannotLoadInternal)
    ELSE LoaderResolve(specifier, referrer)

\* InternalModuleLoader::resolve around the loader it wraps: `wrapped` is
\* "Noop" for the default NoopModuleLoader and "Loader" for the embedder's
\* loader. The unwrap() of a referrer that is not "." and does not parse
\* panics.
WrappedResolve(wrapped, specifier, referrer) ==
  IF wrapped = "Noop" THEN NoopResolve(specifier, referrer)
  ELSE LoaderResolve(specifier, referrer)

InternalModuleLoader_resolve(wrapped, specifier, referrer) ==
  IF UrlScheme(specifier) = "internal"
    THEN IF referrer = "." THEN ResolveOk(specifier)
         ELSE IF UrlScheme(referrer) = NoScheme THEN Panicked
         ELSE IF UrlScheme(referrer) = "internal" THEN ResolveOk(specifier)
         ELSE ResolveErr(specifier, CannotLoadInternal)
    ELSE WrappedResolve(wrapped, specifier, referrer)

\* Source code as the engine sees it: whether it compiles (or parses as
\* JSON) and the imports it contains, in source order.
Code(imports) == [kind |-> "ok", imports |-> imports]

SyntaxError == [kind |-> "syntax", imports |-> <<>>]

\* Results of loader.load(specifier).
Js(found, imports) ==
  [kind |-> "src", module_type |-> "JavaScript", module_url_found |-> found,
   code |-> Code(imports)]

Json(found) ==
  [kind |-> "src", module_type |-> "Json", module_url_found |-> found,
   code |-> Code(<<>>)]

Broken(found, module_type) ==
  [kind |-> "src", module_type |-> module_type, module_url_found |-> found,
   code |-> SyntaxError]

LoadErr == [kind |-> "err", module_type |-> "JavaScript",
            module_url_found |-> "", code |-> SyntaxError]

NeverReady == [kind |-> "never", module_type |-> "JavaScript",
               module_url_found |-> "", code |-> SyntaxError]

Table(ra, rb, rc) == [s \in Specs |-> CASE s = "a" -> ra [] s = "b" -> rb [] OTHER -> rc]

\* a -> [b, c]; b -> [c]; c -> []   (tests::test_recursive_load)
DiamondLoader ==
  Table(Js("a", <<Import("b", ""), Import("c", "")>>),
        Js("b", <<Import("c", "")>>),
        Js("c", <<>>))

\* 1 -> [2]; 2 -> [3]; 3 -> [1, 2]   (tests::test_circular_load)
CircularLoader ==
  Table(Js("a", <<Import("b", "")>>),
        Js("b", <<Import("c", "")>>),
        Js("c", <<Import("a", ""), Import("b", "")>>))

\* a -> [b]; b is found at c; c -> [a]   (tests::test_redirect_load)
RedirectLoader ==
  Table(Js("a", <<Import("b", "")>>),
        Js("c", <<Import("a", "")>>),
        Js("c", <<Import("a", "")>>))

\* main -> [never_ready, slow]; slow -> [never_ready, main]
\* (tests::slow_never_ready_modules)
NeverReadyLoader ==
  Table(Js("a", <<Import("b", ""), Import("c", "")>>),
        NeverReady,
        Js("c", <<Import("b", ""), Import("a", "")>>))

\* a imports b.json with the assertion and c without; c is a JSON source.
JsonLoader ==
  Table(Js("a", <<Import("b", "json"), Import("c", "")>>),
        Json("b"),
        Json("c"))

\* a imports b both with and without the json assertion; b is JavaScript.
BothTypesLoader ==
  Table(Js("a", <<Import("b", ""), Import("b", "json")>>),
        Js("b", <<>>),
        Js("c", <<Import("b", "css")>>))

\* Fetch failure and sources that do not compile or parse.
FailingLoader ==
  Table(Js("a", <<Import("b", ""), Import("c", "")>>),
        LoadErr,
        Broken("c", "JavaScript"))

\* a is found at b (which imports a); b itself is found at c, which does
\* not compile.
RedirectChainLoader ==
  Table(Js("b", <<Import("a", "")>>),
        Broken("c", "JavaScript"),
        Broken("c", "JavaScript"))

\* A chain of redirects: a is found at b, and b is found at c, which imports
\* both.
RedirectTwiceLoader ==
  Table(Js("b", <<>>),
        Js("c", <<Import("a", ""), Import("b", "")>>),
        Js("c", <<Import("a", ""), Import("b", "")>>))

\* a is found at b and b is found at a.
RedirectSwapLoader ==
  Table(Js("b", <<>>),
        Js("a", <<>>),
        Js("c", <<Import("a", ""), Import("b", "")>>))

\* main -> [never_ready, slow]; slow -> [never_ready with {type: "json"},
\* main]: the module that is registered later imports the specifier that
\* never becomes ready under the other asserted type.
NeverReadyTypesLoader ==
  Table(Js("a", <<Import("b", ""), Import("c", "")>>),
        NeverReady,
        Js("c", <<Import("b", "json"), Import("a", "")>>))

\* c imports a and b; a is found at b, and b is found at d, which does not
\* compile.
RedirectBrokenLoader ==
  Table(Js("b", <<>>),
        Broken("d", "JavaScript"),
        Js("c", <<Import("a", ""), Import("b", "")>>))

Loaders ==
  {DiamondLoader, CircularLoader, RedirectLoader, NeverReadyLoader,
   JsonLoader, BothTypesLoader, FailingLoader, RedirectChainLoader,
   RedirectTwiceLoader, RedirectSwapLoader}

\* ------------------------------------------------------------------------
\* ModuleMap
\* ------------------------------------------------------------------------

\* SymbolicModule
Alias(target) == [tag |-> "Alias", id |-> NoId, target |-> target]

Mod(id) == [tag |-> "Mod", id |-> id, target |-> ""]

\* Result of a get_id call whose loop over the aliases never ends.
Diverges == -2

\* ModuleMap::new
\* json_value_store is the set of its keys, the module handles.  `evaluated`
\* is not a field of ModuleMap: it is the engine's record of the synthetic
\* modules whose evaluation steps have run, kept with the handles.
NewModuleMap ==
  [handles |-> <<>>,
   info |-> <<>>,
   by_name |-> <<>>,
   next_load_id |-> 1,
   dynamic_import_map |-> {},
   preparing_dynamic_imports |-> {},
   pending_dynamic_imports |-> {},
   json_value_store |-> {},
   evaluated |-> {}]

\* The loop of get_id.  A chain that is longer than the number of entries
\* of by_name has entered a cycle, and the loop of the code never leaves it.
RECURSIVE get_id_loop(_, _, _, _)
get_id_loop(by_name, mod_name, amt, fuel) ==
  LET key == <<mod_name, amt>> IN
  IF key \notin DOMAIN by_name THEN NoId
  ELSE IF by_name[key].tag = "Mod" THEN by_name[key].id
  ELSE IF fuel = 0 THEN Diverges
  ELSE get_id_loop(by_name, by_name[key].target, amt, fuel - 1)

get_id(mm, name, amt) ==
  get_id_loop(mm.by_name, name, amt, Cardinality(DOMAIN mm.by_name))

get_info_by_id(mm, id) == mm.info[id + 1]

get_requested_modules(mm, id) == mm.info[id + 1].requests

\* get_handle: the handle of module id, or NoId where the id is out of range.
get_handle(mm, id) ==
  IF id + 1 \in 1..Len(mm.handles) THEN mm.handles[id + 1] ELSE NoId

\* The result of resolve_callback: the module map as the call leaves it, and
\* Some(handle), None, the panic of expect(), or the get_id loop that never
\* returns.
CallbackResult(mm, outcome, handle) ==
  [mm |-> mm, outcome |-> outcome, handle |-> handle]

\* A resolve_callback that takes a load id.
resolve_callback_taking_id(mm, specifier, referrer, import) ==
  CallbackResult([mm EXCEPT !.next_load_id = @ + 1], "None", NoId)

resolve_callback(mm, specifier, referrer, import) ==
  LET resolved == resolve_helper(snapshot_loaded_and_not_snapshotting,
                                 specifier, referrer)
      module_type == get_asserted_module_type_from_assertions(import)
      id == get_id(mm, resolved.specifier, module_type)
  IN IF ~resolved.ok THEN CallbackResult(mm, "panic", NoId)
     ELSE IF id = Diverges THEN CallbackResult(mm, "hang", NoId)
     ELSE IF id >= 0 /\ get_handle(mm, id) # NoId
       THEN CallbackResult(mm, "Some", get_handle(mm, id))
     ELSE CallbackResult(mm, "None", NoId)

\* is_registered that finds no module.
is_registered_never(mm, specifier, amt) == FALSE

is_registered(mm, specifier, amt) ==
  LET id == get_id(mm, specifier, amt) IN
  IF id >= 0
    THEN amt = AmtFromModuleType(get_info_by_id(mm, id).module_type)
    ELSE FALSE

is_alias(mm, name, amt) ==
  <<name, amt>> \in DOMAIN mm.by_name /\ mm.by_name[<<name, amt>>].tag = "Alias"

\* An alias that is not recorded.
alias_dropped(mm, name, amt, target) == mm

alias(mm, name, amt, target) ==
  [mm EXCEPT !.by_name = (<<name, amt>> :> Alias(target)) @@ @]

\* create_module_info that puts the new module in front of the others.
create_module_info_in_front(mm, name, module_type, main, requests) ==
  LET id == Len(mm.handles) IN
  [mm EXCEPT
     !.by_name = (<<name, AmtFromModuleType(module_type)>> :> Mod(id)) @@ @,
     !.handles = <<id>> \o @,
     !.info = <<[id |-> id, main |-> main, name |-> name,
                 requests |-> requests, module_type |-> module_type]>> \o @]

\* create_module_info that numbers the modules from one.
create_module_info_from_one(mm, name, module_type, main, requests) ==
  LET id == Len(mm.handles) + 1 IN
  [mm EXCEPT
     !.by_name = (<<name, AmtFromModuleType(module_type)>> :> Mod(id)) @@ @,
     !.handles = Append(@, id),
     !.info = Append(@, [id |-> id, main |-> main, name |-> name,
                         requests |-> requests, module_type |-> module_type])]

create_module_info(mm, name, module_type, main, requests) ==
  LET id == Len(mm.handles) IN
  [mm EXCEPT
     !.by_name = (<<name, AmtFromModuleType(module_type)>> :> Mod(id)) @@ @,
     !.handles = Append(@, id),
     !.info = Append(@, [id |-> id, main |-> main, name |-> name,
                         requests |-> requests, module_type |-> module_type])]

\* Results of the registering operations.
RegOk(mm, id) == [ok |-> TRUE, error |-> "", mm |-> mm, id |-> id]

RegErr(mm, error) == [ok |-> FALSE, error |-> error, mm |-> mm, id |-> NoId]

new_json_module(mm, name, code) ==
  IF code.kind # "ok"
    THEN RegErr(mm, "Exception")
    ELSE RegOk(create_module_info(
                 [mm EXCEPT !.json_value_store = @ \cup {Len(mm.handles)}],
                 name, "Json", FALSE, <<>>),
               Len(mm.handles))

\* json_module_evaluation_steps for the module behind `handle`: the value is
\* taken out of json_value_store, and the unwrap() of a value that is not
\* there panics.
json_module_evaluation_steps(mm, handle) ==
  IF handle \in mm.json_value_store
    THEN RegOk([mm EXCEPT !.json_value_store = @ \ {handle},
                          !.evaluated = @ \cup {handle}], handle)
    ELSE RegErr(mm, "panic")

\* The loop of new_es_module over the imports of the compiled module: the
\* requests built so far, or the error of the first import that fails.
RECURSIVE es_module_requests(_, _, _, _)

\* The loop that puts each request in front of the earlier ones.
es_module_requests_in_front(imports, name, i, requests) ==
  IF i > Len(imports) THEN [error |-> "", requests |-> requests]
  ELSE IF ~validate_import_assertions(imports[i])
    THEN [error |-> "Exception", requests |-> requests]
  ELSE LET resolved == resolve_helper(snapshot_loaded_and_not_snapshotting,
                                  imports[i].specifier, name) IN
    IF ~resolved.ok THEN [error |-> "Other", requests |-> requests]
    ELSE es_module_requests(imports, name, i + 1,
           <<ModuleRequest(resolved.specifier,
               get_asserted_module_type_from_assertions(imports[i]))>>
           \o requests)

es_module_requests(imports, name, i, requests) ==
  IF i > Len(imports) THEN [error |-> "", requests |-> requests]
  ELSE IF ~validate_import_assertions(imports[i])
    THEN [error |-> "Exception", requests |-> requests]
  ELSE LET resolved == resolve_helper(snapshot_loaded_and_not_snapshotting,
                                  imports[i].specifier, name) IN
    IF ~resolved.ok THEN [error |-> "Other", requests |-> requests]
    ELSE es_module_requests(imports, name, i + 1,
           Append(requests,
                  ModuleRequest(resolved.specifier,
                     get_asserted_module_type_from_assertions(imports[i]))))

\* new_es_module without the look-up of a module with main = true.
new_es_module_any_main(mm, main, name, code) ==
  IF code.kind # "ok" THEN RegErr(mm, "Exception")
  ELSE LET r == es_module_requests(code.imports, name, 1, <<>>) IN
    IF r.error # "" THEN RegErr(mm, r.error)
    ELSE RegOk(create_module_info(mm, name, "JavaScript", main, r.requests),
               Len(mm.handles))

new_es_module(mm, main, name, code) ==
  IF code.kind # "ok" THEN RegErr(mm, "Exception")
  ELSE LET r == es_module_requests(code.imports, name, 1, <<>>) IN
    IF r.error # "" THEN RegErr(mm, r.error)
    ELSE IF main /\ \E i \in 1..Len(mm.info) : mm.info[i].main
      THEN RegErr(mm, "MainExists")
    ELSE RegOk(create_module_info(mm, name, "JavaScript", main, r.requests),
               Len(mm.handles))

\* The values of the engine that the snapshot data is made of: integers,
\* booleans, strings and arrays.
V8Integer(n) == [is |-> "number", n |-> n, b |-> FALSE, s |-> "", elems |-> <<>>]

V8Boolean(b) == [is |-> "boolean", n |-> 0, b |-> b, s |-> "", elems |-> <<>>]

V8String(s) == [is |-> "string", n |-> 0, b |-> FALSE, s |-> s, elems |-> <<>>]

V8Array(elems) == [is |-> "array", n |-> 0, b |-> FALSE, s |-> "", elems |-> elems]

\* `module_type as i32`
ModuleTypeNo(module_type) == IF module_type = "JavaScript" THEN 0 ELSE 1

\* `asserted_module_type as i32`
AssertedModuleTypeNo(amt) == IF amt = "JavaScriptOrWasm" THEN 0 ELSE 1

\* The array of 2 * requests.len() elements of a serialized ModuleInfo.
serialize_requests(requests) ==
  [k \in 1..(2 * Len(requests)) |->
     IF k % 2 = 1
       THEN V8String(requests[(k + 1) \div 2].specifier)
       ELSE V8Integer(AssertedModuleTypeNo(requests[k \div 2].asserted_module_type))]

serialize_module_info(info) ==
  V8Array(<<V8Integer(info.id), V8Boolean(info.main), V8String(info.name),
            V8Array(serialize_requests(info.requests)),
            V8Integer(ModuleTypeNo(info.module_type))>>)

serialize_symbolic_module(key, symbolic_module) ==
  V8Array(<<V8String(key[1]), V8Integer(AssertedModuleTypeNo(key[2])),
            IF symbolic_module.tag = "Alias"
              THEN V8String(symbolic_module.target)
              ELSE V8Integer(symbolic_module.id)>>)

\* serialize_for_snapshotting: the array [next_load_id, info, by_name], where
\* by_name is written in the order the map is iterated in, and the handles.
serialize_for_snapshotting(mm, order) ==
  [array |->
     V8Array(<<V8Integer(mm.next_load_id),
               V8Array([i \in 1..Len(mm.info) |-> serialize_module_info(mm.info[i])]),
               V8Array([i \in 1..Len(order) |->
                          serialize_symbolic_module(order[i], mm.by_name[order[i]])])>>),
   handles |-> mm.handles]

\* The match of update_with_snapshot_data on a module type number.
module_type_from_no(module_type_no) ==
  CASE module_type_no = 0 -> "JavaScript"
    [] module_type_no = 1 -> "Json"

\* An asserted module type that is always read as JavaScriptOrWasm.
asserted_module_type_from_no_ignored(asserted_module_type_no) ==
  "JavaScriptOrWasm"

\* The match of update_with_snapshot_data on an asserted module type number.
asserted_module_type_from_no(asserted_module_type_no) ==
  CASE asserted_module_type_no = 0 -> "JavaScriptOrWasm"
    [] asserted_module_type_no = 1 -> "Json"

restore_requests(requests_arr) ==
  [i \in 1..(Len(requests_arr.elems) \div 2) |->
     ModuleRequest(requests_arr.elems[2 * i - 1].s,
                   asserted_module_type_from_no(requests_arr.elems[2 * i].n))]

restore_module_info(module_info_arr) ==
  [id |-> module_info_arr.elems[1].n,
   main |-> module_info_arr.elems[2].b,
   name |-> module_info_arr.elems[3].s,
   requests |-> restore_requests(module_info_arr.elems[4]),
   module_type |-> module_type_from_no(module_info_arr.elems[5].n)]

restore_key(arr) == <<arr.elems[1].s, asserted_module_type_from_no(arr.elems[2].n)>>

restore_symbolic_module(symbolic_module_val) ==
  IF symbolic_module_val.is = "number"
    THEN Mod(symbolic_module_val.n)
    ELSE Alias(symbolic_module_val.s)

\* The map that the elements of the serialized by_name are inserted into, one
\* after the other.
restore_by_name(by_name_arr) ==
  LET n == Len(by_name_arr.elems)
      keys == {restore_key(by_name_arr.elems[i]) : i \in 1..n}
      last(key) == CHOOSE i \in 1..n :
                     /\ restore_key(by_name_arr.elems[i]) = key
                     /\ \A j \in 1..n :
                          restore_key(by_name_arr.elems[j]) = key => j <= i
  IN [key \in keys |-> restore_symbolic_module(by_name_arr.elems[last(key)].elems[3])]

\* update_with_snapshot_data
update_with_snapshot_data(mm, data, module_handles) ==
  [mm EXCEPT
     !.next_load_id = data.elems[1].n,
     !.info = [i \in 1..Len(data.elems[2].elems) |->
                 restore_module_info(data.elems[2].elems[i])],
     !.by_name = restore_by_name(data.elems[3]),
     !.handles = module_handles]

\* ------------------------------------------------------------------------
\* RecursiveModuleLoad
\* ------------------------------------------------------------------------

LoadState == {"Init", "LoadingRoot", "LoadingImports", "Done"}

\* LoadInit: Main(specifier), Side(specifier) or
\* DynamicImport(specifier, referrer, asserted module type).
LoadInit(kind, specifier, referrer, amt) ==
  [kind |-> kind, specifier |-> specifier, referrer |-> referrer,
   asserted_module_type |-> amt]

is_dynamic_import(load) == load.init.kind = "DynamicImport"

\* The test that looks at the state of the load only.
is_loading_root(load) == load.state = "LoadingRoot"

is_currently_loading_main_module(load) ==
  /\ ~is_dynamic_import(load)
  /\ load.init.kind = "Main"
  /\ load.state = "LoadingRoot"

resolve_root(load) ==
  IF load.init.kind = "DynamicImport"
    THEN resolve_helper(snapshot_loaded_and_not_snapshotting,
                        load.init.specifier, load.init.referrer)
    ELSE resolve_helper(snapshot_loaded_and_not_snapshotting,
                        load.init.specifier, ".")

\* The asserted type of the root request: that of the dynamic import, and
\* JavaScriptOrWasm for a main or a side load.
InitAssertedModuleType(init) ==
  IF init.kind = "DynamicImport" THEN init.asserted_module_type
  ELSE "JavaScriptOrWasm"

\* A fetch future of `pending`: the request it will yield, and whether it is
\* the synthesized load event of a root that is registered already.
Fetch(request, fake) == [request |-> request, fake |-> fake]

\* RecursiveModuleLoad::new that takes the id and leaves next_load_id as it
\* is.
NewLoad_keeping_next_id(mm, init) ==
  LET amt == InitAssertedModuleType(init)
      load0 == [id |-> mm.next_load_id,
                root_module_id |-> NoId,
                root_asserted_module_type |-> NoType,
                root_module_type |-> NoType,
                init |-> init,
                state |-> "Init",
                pending |-> {},
                visited |-> {}]
      root == resolve_root(load0)
      id == IF root.ok THEN get_id(mm, root.specifier, amt) ELSE NoId
  IN [mm |-> mm,
      hang |-> (id = Diverges),
      load |-> IF id >= 0
                 THEN [load0 EXCEPT
                         !.root_module_id = id,
                         !.root_asserted_module_type = amt,
                         !.root_module_type = get_info_by_id(mm, id).module_type]
                 ELSE load0]

\* RecursiveModuleLoad::new: the module map after the id is taken, the load,
\* and whether the look-up of the root by get_id ever returns.
NewLoad(mm, init) ==
  LET mm1 == [mm EXCEPT !.next_load_id = @ + 1]
      amt == InitAssertedModuleType(init)
      load0 == [id |-> mm.next_load_id,
                root_module_id |-> NoId,
                root_asserted_module_type |-> NoType,
                root_module_type |-> NoType,
                init |-> init,
                state |-> "Init",
                pending |-> {},
                visited |-> {}]
      root == resolve_root(load0)
      id == IF root.ok THEN get_id(mm1, root.specifier, amt) ELSE NoId
  IN [mm |-> mm1,
      hang |-> (id = Diverges),
      load |-> IF id >= 0
                 THEN [load0 EXCEPT
                         !.root_module_id = id,
                         !.root_asserted_module_type = amt,
                         !.root_module_type = get_info_by_id(mm1, id).module_type]
                 ELSE load0]

\* A fetch future that is pushed without marking the request visited.
push_fetch_unmarked(st, module_request) ==
  [st EXCEPT !.pending = @ \cup {Fetch(module_request, FALSE)},
             !.fetched = Append(@, module_request)]

\* An import that is neither visited nor registered: a fetch future for it
\* is pushed onto pending and the request is marked visited.
push_fetch(st, module_request) ==
  [st EXCEPT !.pending = @ \cup {Fetch(module_request, FALSE)},
             !.fetched = Append(@, module_request),
             !.visited = @ \cup {module_request}]

\* The loop over the imports of one module in register_and_recurse.  st is
\* the queue of already registered modules still to walk, the visited set,
\* the pending fetches, the requests fetches were created for, and whether
\* a get_id call did not return.
RECURSIVE recurse_imports(_, _, _, _)
recurse_imports(mm, imports, i, st) ==
  IF i > Len(imports) \/ st.hang THEN st
  ELSE LET module_request == imports[i] IN
    IF module_request \in st.visited
      THEN recurse_imports(mm, imports, i + 1, st)
    ELSE LET id == get_id(mm, module_request.specifier,
                          module_request.asserted_module_type) IN
      IF id = Diverges THEN [st EXCEPT !.hang = TRUE]
      ELSE IF id >= 0
        THEN recurse_imports(mm, imports, i + 1,
               [st EXCEPT !.already_registered = Append(@, <<id, module_request>>),
                          !.visited = @ \cup {module_request}])
      ELSE recurse_imports(mm, imports, i + 1, push_fetch(st, module_request))

\* The while loop over already_registered in register_and_recurse.
RECURSIVE recurse_registered(_, _)
recurse_registered(mm, st) ==
  IF st.already_registered = <<>> \/ st.hang THEN st
  ELSE LET module_id == Head(st.already_registered)[1] IN
    recurse_registered(mm,
      recurse_imports(mm, get_requested_modules(mm, module_id), 1,
                      [st EXCEPT !.already_registered = Tail(@)]))

\* A ModuleSource as loader.load returns it for a requested specifier.
ModuleSource(specified, result) ==
  [code |-> result.code, module_type |-> result.module_type,
   module_url_specified |-> specified,
   module_url_found |-> result.module_url_found]

\* Results of register_and_recurse: Ok, an error, or a call that never
\* returns; with the module map and the load as the call leaves them and the
\* specifiers it created fetches for.
RecurseResult(outcome, error, mm, load, fetched) ==
  [outcome |-> outcome, error |-> error, mm |-> mm, load |-> load,
   fetched |-> fetched]

\* update_state without the step to Done when nothing is pending.
update_state_root_only(load, module_id, module_source) ==
  IF load.state = "LoadingRoot"
    THEN [load EXCEPT
            !.root_module_id = module_id,
            !.root_asserted_module_type =
               AmtFromModuleType(module_source.module_type),
            !.state = "LoadingImports"]
    ELSE load

\* update_state that does not record the id of the root.
update_state_without_root_id(load, module_id, module_source) ==
  LET load1 == IF load.state = "LoadingRoot"
                 THEN [load EXCEPT
                         !.root_asserted_module_type =
                            AmtFromModuleType(module_source.module_type),
                         !.state = "LoadingImports"]
                 ELSE load
  IN IF load1.pending = {} THEN [load1 EXCEPT !.state = "Done"] ELSE load1

\* update_state that moves to Done whatever is pending.
update_state_ignoring_pending(load, module_id, module_source) ==
  [update_state_root_only(load, module_id, module_source) EXCEPT !.state = "Done"]

\* The end of register_and_recurse: "Update self.state however applicable".
update_state(load, module_id, module_source) ==
  LET load1 == IF load.state = "LoadingRoot"
                 THEN [load EXCEPT
                         !.root_module_id = module_id,
                         !.root_asserted_module_type =
                            AmtFromModuleType(module_source.module_type),
                         !.state = "LoadingImports"]
                 ELSE load
  IN IF load1.pending = {} THEN [load1 EXCEPT !.state = "Done"] ELSE load1

\* register_and_recurse that installs the alias before it compares the
\* types.
register_and_recurse_alias_first(mm, load, module_request, module_source) ==
  LET expected == AmtFromModuleType(module_source.module_type) IN
  IF module_request.asserted_module_type # expected
    THEN RecurseResult("err", "TypeMismatch",
           IF module_source.module_url_specified # module_source.module_url_found
             THEN alias(mm, module_source.module_url_specified, expected,
                        module_source.module_url_found)
             ELSE mm,
           load, <<>>)
  ELSE
    LET mm1 == IF module_source.module_url_specified # module_source.module_url_found
                 THEN alias(mm, module_source.module_url_specified, expected,
                            module_source.module_url_found)
                 ELSE mm
        maybe_module_id == get_id(mm1, module_source.module_url_found, expected)
        reg == IF maybe_module_id >= 0 THEN RegOk(mm1, maybe_module_id)
               ELSE IF module_source.module_type = "JavaScript"
                 THEN new_es_module(mm1, is_currently_loading_main_module(load),
                                    module_source.module_url_found,
                                    module_source.code)
               ELSE new_json_module(mm1, module_source.module_url_found,
                                    module_source.code)
    IN
    IF maybe_module_id = Diverges
      THEN RecurseResult("hang", "", mm1, load, <<>>)
    ELSE IF ~reg.ok
      THEN RecurseResult("err", reg.error, reg.mm, load, <<>>)
    ELSE
      LET st == recurse_registered(reg.mm,
                  [already_registered |-> << <<reg.id, module_request>> >>,
                   visited |-> load.visited \cup {module_request},
                   pending |-> load.pending,
                   fetched |-> <<>>,
                   hang |-> FALSE])
          load1 == [load EXCEPT !.visited = st.visited, !.pending = st.pending]
      IN IF st.hang
           THEN RecurseResult("hang", "", reg.mm, load1, st.fetched)
           ELSE RecurseResult("ok", "", reg.mm,
                              update_state(load1, reg.id, module_source),
                              st.fetched)

\* RecursiveModuleLoad::register_and_recurse
register_and_recurse(mm, load, module_request, module_source) ==
  LET expected == AmtFromModuleType(module_source.module_type) IN
  IF module_request.asserted_module_type # expected
    THEN RecurseResult("err", "TypeMismatch", mm, load, <<>>)
  ELSE
    LET mm1 == IF module_source.module_url_specified # module_source.module_url_found
                 THEN alias(mm, module_source.module_url_specified, expected,
                            module_source.module_url_found)
                 ELSE mm
        maybe_module_id == get_id(mm1, module_source.module_url_found, expected)
        reg == IF maybe_module_id >= 0 THEN RegOk(mm1, maybe_module_id)
               ELSE IF module_source.module_type = "JavaScript"
                 THEN new_es_module(mm1, is_currently_loading_main_module(load),
                                    module_source.module_url_found,
                                    module_source.code)
               ELSE new_json_module(mm1, module_source.module_url_found,
                                    module_source.code)
    IN
    IF maybe_module_id = Diverges
      THEN RecurseResult("hang", "", mm1, load, <<>>)
    ELSE IF ~reg.ok
      THEN RecurseResult("err", reg.error, reg.mm, load, <<>>)
    ELSE
      LET st == recurse_registered(reg.mm,
                  [already_registered |-> << <<reg.id, module_request>> >>,
                   visited |-> load.visited \cup {module_request},
                   pending |-> load.pending,
                   fetched |-> <<>>,
                   hang |-> FALSE])
          load1 == [load EXCEPT !.visited = st.visited, !.pending = st.pending]
      IN IF st.hang
           THEN RecurseResult("hang", "", reg.mm, load1, st.fetched)
           ELSE RecurseResult("ok", "", reg.mm,
                              update_state(load1, reg.id, module_source),
                              st.fetched)

\* ------------------------------------------------------------------------
\* Borrows of the module map (module_map_rc: Rc<RefCell<ModuleMap>>)
\* ------------------------------------------------------------------------

\* The borrow state of the RefCell: the number of Ref values alive, whether
\* a RefMut is alive, and whether a borrow has failed (borrow() while a
\* RefMut is alive, or borrow_mut() while any borrow is alive, panics).
Unborrowed == [readers |-> 0, writer |-> FALSE, failed |-> FALSE]

borrow(c) ==
  IF c.writer THEN [c EXCEPT !.failed = TRUE]
  ELSE [c EXCEPT !.readers = @ + 1]

borrow_mut(c) ==
  IF c.writer \/ c.readers > 0 THEN [c EXCEPT !.failed = TRUE]
  ELSE [c EXCEPT !.writer = TRUE]

drop_ref(c) == [c EXCEPT !.readers = IF @ > 0 THEN @ - 1 ELSE 0]

drop_ref_mut(c) == [c EXCEPT !.writer = FALSE]

\* The borrows a piece of code makes, in order: each event is one of
\* "borrow", "borrow_mut", "drop" and "drop_mut".  A failed borrow panics and
\* nothing after it runs.
RECURSIVE RunBorrows(_, _)
RunBorrows(c, events) ==
  IF events = <<>> \/ c.failed THEN c
  ELSE RunBorrows(CASE Head(events) = "borrow" -> borrow(c)
                    [] Head(events) = "borrow_mut" -> borrow_mut(c)
                    [] Head(events) = "drop" -> drop_ref(c)
                    [] OTHER -> drop_ref_mut(c),
                  Tail(events))

\* A borrow() or borrow_mut() whose guard is a temporary of one statement.
Shared == <<"borrow", "drop">>

Exclusive == <<"borrow_mut", "drop_mut">>

\* RecursiveModuleLoad::new: the id is taken under borrow_mut(); op_state,
\* loader and the snapshot flag are read under a borrow() each; the Ref of
\* the `if let` over get_id lives to the end of the `if let`, around the
\* borrow() of get_info_by_id.  A get_id that loops never drops its Ref.
new_borrows(new) ==
  Exclusive \o Shared \o Shared \o Shared \o
  (IF ~resolve_root(new.load).ok THEN <<>>
   ELSE IF new.hang THEN <<"borrow">>
   ELSE IF new.load.root_module_id # NoId
     THEN <<"borrow">> \o Shared \o <<"drop">>
   ELSE Shared)

\* load_dynamic_import after the constructor: the insert into
\* dynamic_import_map, the read of loader and flag, is_registered when the
\* specifier resolves, and the push onto preparing_dynamic_imports.
load_dynamic_import_borrows(new, resolve_result) ==
  new_borrows(new) \o
  (IF new.hang THEN <<>>
   ELSE Exclusive \o Shared \o
        (IF resolve_result.ok THEN Shared ELSE <<>>) \o Exclusive)

\* register_and_recurse: nothing when the types do not match; alias() under
\* borrow_mut(); get_id under borrow(); new_es_module or new_json_module
\* under borrow_mut(); in the loop, get_requested_modules under borrow() for
\* each module and get_id under a borrow() that lives through the `if let`
\* for each import that is not visited (one of each kind stands for all
\* rounds).  A get_id that loops never drops its Ref.
register_and_recurse_borrows(mm, load, module_request, module_source, r) ==
  LET expected == AmtFromModuleType(module_source.module_type)
      aliasing == module_source.module_url_specified # module_source.module_url_found
      mm1 == IF aliasing
               THEN alias(mm, module_source.module_url_specified, expected,
                          module_source.module_url_found)
               ELSE mm
      maybe_module_id == get_id(mm1, module_source.module_url_found, expected)
  IN IF module_request.asserted_module_type # expected THEN <<>>
     ELSE (IF aliasing THEN Exclusive ELSE <<>>) \o
          (IF maybe_module_id = Diverges THEN <<"borrow">>
           ELSE Shared \o
                (IF maybe_module_id = NoId THEN Exclusive ELSE <<>>) \o
                (IF r.outcome = "err" THEN <<>>
                 ELSE Shared \o
                      (IF r.outcome = "hang" THEN <<"borrow">>
                       ELSE IF r.load.visited # load.visited \cup {module_request}
                         THEN Shared
                       ELSE <<>>)))

\* poll_next that reads the module map.
poll_next_borrowing(load) == Shared

\* poll_next: "Do not borrow inner.module_map_rc here. It may not be
\* available."
poll_next_borrows(load) == <<>>

\* RecursiveModuleLoad::prepare: resolve_helper and loader.prepare_load on
\* the load's own op_state and loader.
prepare_borrows(load) == <<>>

\* A dynamic import is polled through the module map that owns it
\* (preparing_dynamic_imports, pending_dynamic_imports), under a
\* borrow_mut() of the poller; a main or side load is polled by its caller.
Polled(load, events) ==
  IF is_dynamic_import(load) THEN <<"borrow_mut">> \o events \o <<"drop_mut">>
  ELSE events

\* ------------------------------------------------------------------------
\* Documents (cli/lsp/documents.rs)
\* ------------------------------------------------------------------------

\* A document on disk whose extension says JSON, and a remote module without
\* an extension whose cached content-type header says TypeScript.
DocSpecifiers == {"file:///a.json", "https://x/mod"}

LanguageId == {"TypeScript", "Json", "Markdown"}

NoLanguageId == "None"

as_media_type(language_id) ==
  CASE language_id = "TypeScript" -> "TypeScript"
    [] language_id = "Json" -> "Json"
    [] OTHER -> "Unknown"

LanguageId_is_diagnosable(language_id) ==
  language_id \in {"JavaScript", "Jsx", "TypeScript", "Tsx"}

\* MediaType::from(&specifier): the media type the path of the specifier
\* tells.
SpecifierMediaType(specifier) ==
  IF specifier = "file:///a.json" THEN "Json" ELSE "Unknown"

\* The media type parse_source gives the module of a document it read from
\* disk or from the cache: that of the cached content-type header of a
\* remote module, and that of the path without headers.
CachedMediaType(specifier) ==
  IF specifier = "https://x/mod" THEN "TypeScript" ELSE SpecifierMediaType(specifier)

\* maybe_module: not analysed, a parse error, or a module of a media type.
NoModule == "None"

ParseErr == "Err"

\* Document::new: a document read from the file system; `parses` tells
\* whether its content parses.
Document_new(specifier, parses) ==
  [specifier |-> specifier,
   maybe_language_id |-> NoLanguageId,
   maybe_lsp_version |-> 0,
   maybe_module |-> IF parses THEN CachedMediaType(specifier) ELSE ParseErr]

\* Document::open: a document of the editor, parsed with the headers of its
\* language when the language is diagnosable.
Document_open(specifier, version, language_id, parses) ==
  [specifier |-> specifier,
   maybe_language_id |-> language_id,
   maybe_lsp_version |-> version,
   maybe_module |->
     IF LanguageId_is_diagnosable(language_id)
       THEN IF parses THEN as_media_type(language_id) ELSE ParseErr
       ELSE NoModule]

media_type(doc) ==
  IF doc.maybe_module \notin {NoModule, ParseErr} THEN doc.maybe_module
  ELSE IF SpecifierMediaType(doc.specifier) # "Unknown"
    THEN SpecifierMediaType(doc.specifier)
  ELSE IF doc.maybe_language_id # NoLanguageId
    THEN as_media_type(doc.maybe_language_id)
  ELSE "Unknown"

is_diagnosable(doc) ==
  media_type(doc) \in {"JavaScript", "Jsx", "Mjs", "Cjs", "TypeScript", "Tsx",
                       "Mts", "Cts", "Dts", "Dmts", "Dcts"}

is_open(doc) == doc.maybe_lsp_version # 0

\* The values of a HashMap in the order its iteration visits the keys.
Values(map, order) == [i \in DOMAIN order |-> map[order[i]]]

Remove(map, key) == [k \in DOMAIN map \ {key} |-> map[k]]

\* The filter of documents() that forgets the specifiers it has seen.
RECURSIVE filter_any_documents(_, _, _, _)
filter_any_documents(chain, i, seen_documents, diagnosable_only) ==
  IF i > Len(chain) THEN <<>>
  ELSE (IF ~diagnosable_only \/ is_diagnosable(chain[i])
          THEN <<chain[i]>> ELSE <<>>)
       \o filter_any_documents(chain, i + 1, seen_documents, diagnosable_only)

\* The filter_map of documents() over the chain of the open and the file
\* system documents: seen_documents.insert comes first, so a specifier is
\* seen whether its document is kept or not.
RECURSIVE filter_documents(_, _, _, _)
filter_documents(chain, i, seen_documents, diagnosable_only) ==
  IF i > Len(chain) THEN <<>>
  ELSE LET doc == chain[i]
           inserted == doc.specifier \notin seen_documents
       IN (IF inserted /\ (~diagnosable_only \/ is_diagnosable(doc))
             THEN <<doc>> ELSE <<>>)
          \o filter_documents(chain, i + 1,
                              seen_documents \cup {doc.specifier},
                              diagnosable_only)

\* Documents::documents of a store with the given open documents.
documents(open_docs, file_system_docs, open_only, diagnosable_only, open_order, fs_order) ==
  IF open_only
    THEN SelectSeq(Values(open_docs, open_order),
                   LAMBDA doc : ~diagnosable_only \/ is_diagnosable(doc))
    ELSE filter_documents(Values(open_docs, open_order)
                            \o Values(file_system_docs, fs_order),
                          1, {}, diagnosable_only)

\* A Documents store and its clone: the clone has its own open_docs and
\* shares file_system_docs.
Stores == {1, 2}

\* No documents() call in the last step.
NoDocumentsCall ==
  [called |-> FALSE, store |-> 0, open_only |-> FALSE,
   diagnosable_only |-> FALSE, docs |-> <<>>]

\* Documents::new, and its clone.
NewDocuments ==
  [open_docs |-> [store \in Stores |-> <<>>],
   file_system_docs |-> <<>>,
   returned |-> NoDocumentsCall]

\* ------------------------------------------------------------------------
\* normalize_specifier (cli/tsc/mod.rs)
\* ------------------------------------------------------------------------

MaxSpecifierLen == 5

\* A specifier of the compiler host is a string: a sequence of the pieces
\* ".d" and ".ts" and of a piece that holds neither.
SpecifierPieces == {".d", ".ts", "x"}

TscSpecifiers ==
  UNION {[1..n -> SpecifierPieces] : n \in 0..MaxSpecifierLen}

DtsDts == <<".d", ".ts", ".d", ".ts">>

Dts == <<".d", ".ts">>

starts_with(s, pattern) ==
  Len(s) >= Len(pattern) /\ SubSeq(s, 1, Len(pattern)) = pattern

ends_with(s, pattern) ==
  Len(s) >= Len(pattern)
    /\ SubSeq(s, Len(s) - Len(pattern) + 1, Len(s)) = pattern

\* str::replace: every non-overlapping match of `from`, found from left to
\* right, is replaced by `to`.
RECURSIVE str_replace(_, _, _)
str_replace(s, from, to) ==
  IF s = <<>> THEN <<>>
  ELSE IF starts_with(s, from)
    THEN to \o str_replace(SubSeq(s, Len(from) + 1, Len(s)), from, to)
  ELSE <<Head(s)>> \o str_replace(Tail(s), from, to)

\* normalize_specifier: the string that is handed to resolve_url_or_path.
normalize_specifier(specifier) == str_replace(specifier, DtsDts, Dts)

\* ------------------------------------------------------------------------
\* State
\* ------------------------------------------------------------------------

VARIABLES
  module_map,   \* the ModuleMap shared by all loads
  loader,       \* the ModuleLoader: the result of load() for every specifier
  loads,        \* the RecursiveModuleLoads created so far, by load id
  phase,        \* where the driver of each load is
  error,        \* the error a load ended with
  load_calls,   \* the loader.load calls each load made, per request
  hung,         \* a get_id call is looping forever
  last_call,    \* the register_and_recurse call of the last step, if any
  snapshot,     \* the module map of a runtime created from the snapshot
  resolution,   \* the last call of a resolve function on its own, if any
  prepare_calls, \* the loader.prepare_load calls each load made
  lsp,          \* the document stores of the language server
  cell          \* the borrow state of the RefCell around the ModuleMap

vars ==
  <<module_map, loader, loads, phase, error, load_calls, hung, last_call,
    snapshot, resolution, prepare_calls, lsp, cell>>

LoadIds == DOMAIN loads

Active == {id \in LoadIds : phase[id] \in {"preparing", "streaming"}}

Put(f, k, v) == (k :> v) @@ f

Occurrences(seq, x) == Cardinality({i \in 1..Len(seq) : seq[i] = x})

\* The calls of loader.load made when the fetch futures are first polled.
AddCalls(calls, fetched) ==
  [r \in Requests |-> calls[r] + Occurrences(fetched, r)]

NoCalls == [r \in Requests |-> 0]

\* No register_and_recurse call in the last step.
NoCall ==
  [called |-> FALSE, fn |-> "", module_id |-> NoId,
   id |-> 0, outcome |-> "", error |-> "",
   request |-> ModuleRequest("", "JavaScriptOrWasm"),
   source |-> ModuleSource("", LoadErr),
   main |-> FALSE, before |-> NewModuleMap]

\* The register_and_recurse call of load id: its arguments, whether the load
\* was loading its main module, the module map before the call, and the
\* result.
Call(id, load, request, source, before, r) ==
  [called |-> TRUE, fn |-> "register_and_recurse", module_id |-> NoId,
   id |-> id, outcome |-> r.outcome, error |-> r.error,
   request |-> request, source |-> source,
   main |-> is_currently_loading_main_module(load), before |-> before]

\* No call of a resolve function on its own.
NoResolution ==
  [fn |-> "", flag |-> FALSE, wrapped |-> "", specifier |-> "",
   referrer |-> "", type_assertion |-> "", result |-> ResolveOk(""),
   outcome |-> "", handle |-> NoId]

\* A new runtime with the given module loader: an empty module map and no
\* load.
NewRuntime(module_loader) ==
  /\ module_map = NewModuleMap
  /\ resolution = NoResolution
  /\ prepare_calls = <<>>
  /\ last_call = NoCall
  /\ snapshot = [taken |-> FALSE, restored |-> NewModuleMap]
  /\ loader = module_loader
  /\ loads = <<>>
  /\ phase = <<>>
  /\ error = <<>>
  /\ load_calls = <<>>
  /\ hung = FALSE
  /\ lsp = NewDocuments
  /\ cell = Unborrowed

Init == \E module_loader \in Loaders : NewRuntime(module_loader)

\* JsRuntime::load_main_module and load_side_module borrow the runtime until
\* their load has ended or their future is dropped: meanwhile the event loop
\* is not polled and no other load is created.
Awaited == {id \in Active : ~is_dynamic_import(loads[id])}

CanStart ==
  /\ ~hung
  /\ ~snapshot.taken
  /\ Awaited = {}
  /\ module_map.next_load_id <= MaxLoads

\* The driver of load id may take a step.
CanStep(id) ==
  /\ ~hung
  /\ ~snapshot.taken
  /\ id \in LoadIds
  /\ Awaited \subseteq {id}

\* The first half of ModuleMap::load_main and load_side: the load is created
\* and awaits prepare().
StartLoad(kind, specifier) ==
  LET new == NewLoad(module_map, LoadInit(kind, specifier, ".", "JavaScriptOrWasm"))
      id == new.load.id
  IN /\ module_map' = new.mm
     /\ loads' = Put(loads, id, new.load)
     /\ phase' = Put(phase, id, "preparing")
     /\ error' = Put(error, id, "")
     /\ load_calls' = Put(load_calls, id, NoCalls)
     /\ prepare_calls' = Put(prepare_calls, id, 0)
     /\ hung' = new.hang
     /\ cell' = RunBorrows(cell, new_borrows(new))
     /\ last_call' = NoCall
     /\ UNCHANGED <<loader, lsp, snapshot, resolution>>

LoadMain(specifier) ==
  /\ CanStart
  /\ StartLoad("Main", specifier)

LoadSide(specifier) ==
  /\ CanStart
  /\ StartLoad("Side", specifier)

\* RecursiveModuleLoad::prepare returns to load_main or load_side, which
\* hands the load to its caller or returns the resolution error.
Prepare(id) ==
  /\ CanStep(id)
  /\ phase[id] = "preparing"
  /\ ~is_dynamic_import(loads[id])
  /\ IF resolve_root(loads[id]).ok
       THEN /\ prepare_calls' = [prepare_calls EXCEPT ![id] = @ + 1]
            /\ phase' = [phase EXCEPT ![id] = "streaming"]
            /\ UNCHANGED error
       ELSE /\ phase' = [phase EXCEPT ![id] = "failed"]
            /\ error' = [error EXCEPT ![id] = "Resolve"]
            /\ UNCHANGED prepare_calls
  /\ cell' = RunBorrows(cell, Polled(loads[id], prepare_borrows(loads[id])))
  /\ last_call' = NoCall
  /\ UNCHANGED <<module_map, loader, lsp, loads, load_calls, hung, snapshot,
                 resolution>>

\* A future that loses the resolution error.
PrepareLoadFuture_no_error(id, fut) ==
  [id |-> id, fut |-> IF fut = "Err" THEN "Prepare" ELSE fut]

\* The future load_dynamic_import pushes onto preparing_dynamic_imports.
PrepareLoadFuture(id, fut) == [id |-> id, fut |-> fut]

LoadDynamicImport(specifier, amt) ==
  /\ CanStart
  /\ LET new == NewLoad(module_map,
                        LoadInit("DynamicImport", specifier, EntryReferrer, amt))
         id == new.load.id
         resolve_result == resolve_helper(snapshot_loaded_and_not_snapshotting,
                                         specifier, EntryReferrer)
         fut == IF ~resolve_result.ok THEN "Err"
                ELSE IF is_registered(new.mm, resolve_result.specifier, amt)
                  THEN "Loaded"
                ELSE "Prepare"
     IN /\ module_map' =
             [new.mm EXCEPT
                !.dynamic_import_map = @ \cup {id},
                !.preparing_dynamic_imports = @ \cup {PrepareLoadFuture(id, fut)}]
        /\ loads' = Put(loads, id, new.load)
        /\ phase' = Put(phase, id, "preparing")
        /\ error' = Put(error, id, "")
        /\ load_calls' = Put(load_calls, id, NoCalls)
        /\ prepare_calls' = Put(prepare_calls, id, 0)
        /\ hung' = new.hang
        /\ cell' = RunBorrows(cell, load_dynamic_import_borrows(new, resolve_result))
        /\ last_call' = NoCall
        /\ UNCHANGED <<loader, lsp, snapshot, resolution>>

\* The event loop takes a finished future off preparing_dynamic_imports: the
\* load moves to pending_dynamic_imports, or the import is rejected.
PrepareDynImport(id) ==
  /\ CanStep(id)
  /\ \E p \in module_map.preparing_dynamic_imports :
       /\ p.id = id
       /\ IF p.fut = "Err"
            THEN /\ module_map' =
                      [module_map EXCEPT
                         !.preparing_dynamic_imports = @ \ {p},
                         !.dynamic_import_map = @ \ {id}]
                 /\ phase' = [phase EXCEPT ![id] = "failed"]
                 /\ error' = [error EXCEPT ![id] = "Resolve"]
            ELSE /\ module_map' =
                      [module_map EXCEPT
                         !.preparing_dynamic_imports = @ \ {p},
                         !.pending_dynamic_imports = @ \cup {id}]
                 /\ phase' = [phase EXCEPT ![id] = "streaming"]
                 /\ UNCHANGED error
       /\ prepare_calls' =
            IF p.fut = "Prepare"
              THEN [prepare_calls EXCEPT ![id] = @ + 1]
              ELSE prepare_calls
  /\ cell' = RunBorrows(cell, Polled(loads[id], prepare_borrows(loads[id])))
  /\ last_call' = NoCall
  /\ UNCHANGED <<loader, lsp, loads, load_calls, hung, snapshot, resolution>>

\* A load that has ended: the driver drops it, and its fetch futures and its
\* visited set with it.
Dropped(load) == [load EXCEPT !.pending = {}, !.visited = {}]

\* The driver drops a load that ended with an error; a dynamic import is
\* rejected.
DropLoad(mm, id) ==
  [mm EXCEPT !.pending_dynamic_imports = @ \ {id},
             !.dynamic_import_map = @ \ {id}]

\* poll_next in LoadState::Init.
PollInit(id) ==
  /\ CanStep(id)
  /\ phase[id] = "streaming"
  /\ loads[id].state = "Init"
  /\ LET load == loads[id]
         root == resolve_root(load)
         fetch == IF load.root_module_id # NoId
                    THEN Fetch(ModuleRequest(root.specifier,
                                             load.root_asserted_module_type), TRUE)
                    ELSE Fetch(ModuleRequest(root.specifier,
                                             InitAssertedModuleType(load.init)), FALSE)
     IN IF ~root.ok
          THEN /\ phase' = [phase EXCEPT ![id] = "failed"]
               /\ error' = [error EXCEPT ![id] = "Resolve"]
               /\ module_map' = DropLoad(module_map, id)
               /\ UNCHANGED <<loads, load_calls>>
          ELSE /\ loads' = [loads EXCEPT ![id].pending = @ \cup {fetch},
                                         ![id].state = "LoadingRoot"]
               /\ load_calls' =
                    IF fetch.fake THEN load_calls
                    ELSE [load_calls EXCEPT
                            ![id] = AddCalls(@, <<fetch.request>>)]
               /\ UNCHANGED <<module_map, phase, error>>
  /\ cell' = RunBorrows(cell, Polled(loads[id], poll_next_borrows(loads[id])))
  /\ last_call' = NoCall
  /\ UNCHANGED <<loader, lsp, hung, snapshot,
               resolution, prepare_calls>>

\* The source a fetch future yields.
FetchedSource(load, fetch) ==
  IF fetch.fake
    THEN [code |-> Code(<<>>), module_type |-> load.root_module_type,
          module_url_specified |-> fetch.request.specifier,
          module_url_found |-> fetch.request.specifier]
    ELSE ModuleSource(fetch.request.specifier, loader[fetch.request.specifier])

\* poll_next in LoadingRoot or LoadingImports yields the result of a fetch
\* that completed, and the driver passes it to register_and_recurse.
FetchReady(id, fetch) ==
  /\ CanStep(id)
  /\ phase[id] = "streaming"
  /\ loads[id].state \in {"LoadingRoot", "LoadingImports"}
  /\ fetch \in loads[id].pending
  /\ fetch.fake \/ loader[fetch.request.specifier].kind # "never"
  /\ LET polled == [loads[id] EXCEPT !.pending = @ \ {fetch}] IN
     IF ~fetch.fake /\ loader[fetch.request.specifier].kind = "err"
       THEN /\ loads' = [loads EXCEPT ![id] = Dropped(polled)]
            /\ phase' = [phase EXCEPT ![id] = "failed"]
            /\ error' = [error EXCEPT ![id] = "Load"]
            /\ module_map' = DropLoad(module_map, id)
            /\ last_call' = NoCall
            /\ cell' = RunBorrows(cell,
                                  Polled(polled, poll_next_borrows(loads[id])))
            /\ UNCHANGED <<load_calls, hung>>
       ELSE
         LET source == FetchedSource(polled, fetch) IN
         \E r \in {register_and_recurse(module_map, polled, fetch.request, source)} :
            /\ last_call' = Call(id, polled, fetch.request, source, module_map, r)
            /\ loads' = [loads EXCEPT
                         ![id] = IF r.outcome = "err" THEN Dropped(r.load)
                                 ELSE r.load]
            /\ load_calls' = [load_calls EXCEPT ![id] = AddCalls(@, r.fetched)]
            /\ hung' = (r.outcome = "hang")
            /\ cell' = RunBorrows(cell,
                         Polled(polled, poll_next_borrows(loads[id])) \o
                         register_and_recurse_borrows(module_map, polled,
                                                      fetch.request, source, r))
            /\ IF r.outcome = "err"
                 THEN /\ phase' = [phase EXCEPT ![id] = "failed"]
                      /\ error' = [error EXCEPT ![id] = r.error]
                      /\ module_map' = DropLoad(r.mm, id)
                 ELSE /\ module_map' = r.mm
                      /\ UNCHANGED <<phase, error>>
  /\ UNCHANGED <<loader, lsp, snapshot,
               resolution, prepare_calls>>

\* poll_next in LoadState::Done ends the stream, and the driver takes the
\* root module id of the load.
PollDone(id) ==
  /\ CanStep(id)
  /\ phase[id] = "streaming"
  /\ loads[id].state = "Done"
  /\ phase' = [phase EXCEPT ![id] = "finished"]
  /\ loads' = [loads EXCEPT ![id] = Dropped(@)]
  /\ module_map' = DropLoad(module_map, id)
  /\ cell' = RunBorrows(cell, Polled(loads[id], poll_next_borrows(loads[id])))
  /\ last_call' = NoCall
  /\ UNCHANGED <<loader, lsp, error, load_calls, hung, snapshot,
               resolution, prepare_calls>>

\* The caller of load_main_module or load_side_module stops polling a load
\* whose remaining fetches never complete and drops the future, and with it
\* the load and its fetches.
Abandon(id) ==
  /\ CanStep(id)
  /\ id \in Awaited
  /\ loads[id].pending # {}
  /\ \A fetch \in loads[id].pending :
       ~fetch.fake /\ loader[fetch.request.specifier].kind = "never"
  /\ phase' = [phase EXCEPT ![id] = "dropped"]
  /\ loads' = [loads EXCEPT ![id] = Dropped(@)]
  /\ last_call' = NoCall
  /\ UNCHANGED <<module_map, loader, cell, lsp, error, load_calls, hung, snapshot,
               resolution, prepare_calls>>

\* What poll_next can yield next on a load that is left in the given state:
\* the error of resolve_root, or for each fetch of `pending` that completes
\* its (request, source) item or its error. Nothing in LoadState::Done.
poll_next_items(load) ==
  LET fetched(fetch) ==
        IF fetch.fake THEN "Ok"
        ELSE IF loader[fetch.request.specifier].kind = "err" THEN "Err"
        ELSE "Ok"
      ready == {fetch \in load.pending :
                  fetch.fake \/ loader[fetch.request.specifier].kind # "never"}
  IN CASE load.state = "Init" ->
            IF ~resolve_root(load).ok THEN {"Err"}
            ELSE IF load.root_module_id # NoId THEN {"Ok"}
            ELSE {fetched(Fetch(ModuleRequest(resolve_root(load).specifier,
                                  InitAssertedModuleType(load.init)), FALSE))}
       [] load.state = "Done" -> {}
       [] OTHER -> {fetched(fetch) : fetch \in ready}

\* The load as the step FetchReady(id, fetch) leaves it before the driver
\* drops it: the fetch is taken out of `pending`, and register_and_recurse
\* has run if the fetch yielded a source.
StreamAfter(id, fetch) ==
  LET polled == [loads[id] EXCEPT !.pending = @ \ {fetch}] IN
  IF ~fetch.fake /\ loader[fetch.request.specifier].kind = "err" THEN polled
  ELSE register_and_recurse(module_map, polled, fetch.request,
                            FetchedSource(polled, fetch)).load

\* The orders in which the iteration over a HashMap may visit its keys.
Orders(keys) ==
  {order \in [1..Cardinality(keys) -> keys] :
     \A i, j \in DOMAIN order : order[i] = order[j] => i = j}

\* The runtime is consumed to make a snapshot: the module map is serialized,
\* and the runtime that is created from the snapshot restores the data into
\* its new module map.
Snapshot(order) ==
  /\ ~hung
  /\ ~snapshot.taken
  /\ Awaited = {}
  /\ LET data == serialize_for_snapshotting(module_map, order) IN
     snapshot' =
       [taken |-> TRUE,
        restored |-> update_with_snapshot_data(NewModuleMap, data.array,
                                               data.handles)]
  /\ last_call' = NoCall
  /\ UNCHANGED <<module_map, loader, cell, lsp, loads, phase, error, load_calls, hung,
               resolution, prepare_calls>>

RootSpecifiers == Specs \cup {Unresolvable}

Next ==
  \/ \E s \in RootSpecifiers : LoadMain(s)
  \/ \E s \in RootSpecifiers : LoadSide(s)
  \/ \E s \in RootSpecifiers, amt \in AssertedModuleType : LoadDynamicImport(s, amt)
  \/ \E id \in LoadIds : Prepare(id)
  \/ \E id \in LoadIds : PrepareDynImport(id)
  \/ \E id \in LoadIds : PollInit(id)
  \/ \E id \in LoadIds : \E fetch \in loads[id].pending : FetchReady(id, fetch)
  \/ \E id \in LoadIds : PollDone(id)
  \/ \E id \in LoadIds : Abandon(id)

Spec == Init /\ [][Next]_vars

\* The loads over the graphs of tests::slow_never_ready_modules, where the
\* fetch of one specifier never completes, and over a graph where every
\* fetch completes.
NeverReadyInit ==
  \E module_loader \in {NeverReadyLoader, NeverReadyTypesLoader, DiamondLoader} :
    NewRuntime(module_loader)

NeverReadySpec == NeverReadyInit /\ [][Next]_vars

\* The loads over every graph of Loaders and over the graph in which the
\* name a redirect leads to is redirected to a source that does not compile.
BrokenRedirectInit ==
  \E module_loader \in Loaders \cup {RedirectBrokenLoader} :
    NewRuntime(module_loader)

BrokenRedirectSpec == BrokenRedirectInit /\ [][Next]_vars

\* The loads, and a snapshot that is taken at any moment the runtime is not
\* borrowed.
SnapshotNext ==
  \/ Next
  \/ \E order \in Orders(DOMAIN module_map.by_name) : Snapshot(order)

SnapshotSpec == Init /\ [][SnapshotNext]_vars

\* resolve_helper and InternalModuleLoader::resolve called on their own, as
\* the embedder and the tests call them, on every specifier and referrer.
ResolveHelper(flag, specifier, referrer) ==
  /\ resolution' =
       [fn |-> "resolve_helper", flag |-> flag, wrapped |-> "Loader",
        specifier |-> specifier, referrer |-> referrer,
        type_assertion |-> "",
        result |-> resolve_helper(flag, specifier, referrer),
        outcome |-> "", handle |-> NoId]
  /\ UNCHANGED <<module_map, loader, cell, lsp, loads, phase, error, load_calls, hung,
                 last_call, snapshot, prepare_calls>>

InternalResolve(wrapped, specifier, referrer) ==
  /\ resolution' =
       [fn |-> "InternalModuleLoader::resolve", flag |-> FALSE,
        wrapped |-> wrapped, specifier |-> specifier, referrer |-> referrer,
        type_assertion |-> "",
        result |-> InternalModuleLoader_resolve(wrapped, specifier, referrer),
        outcome |-> "", handle |-> NoId]
  /\ UNCHANGED <<module_map, loader, cell, lsp, loads, phase, error, load_calls, hung,
                 last_call, snapshot, prepare_calls>>

ResolveNext ==
  \/ \E flag \in BOOLEAN, specifier \in Strings, referrer \in Strings :
       ResolveHelper(flag, specifier, referrer)
  \/ \E wrapped \in {"Noop", "Loader"}, specifier \in Strings,
         referrer \in Strings :
       InternalResolve(wrapped, specifier, referrer)

ResolveSpec == Init /\ [][ResolveNext]_vars

\* new_es_module, new_json_module and alias called on their own on the
\* module map, with the names a and b and with sources that do not compile,
\* that import with valid, invalid and foreign assertions, and that import
\* what does not resolve.
MaxModules == 2

MaxAliases == 1

RegistryNames == {"a", "b"}

Lang == ("lang" :> "x")

RegistryCodes ==
  {SyntaxError,
   Code(<<>>),
   Code(<<Import("a", "")>>),
   Code(<<Import("b", "json")>>),
   Code(<<Import("b", "css")>>),
   Code(<<Import("a", ""), Import("b", "css")>>),
   Code(<<Import("b", "json"), Import("a", "")>>),
   Code(<<Import(Unresolvable, ""), Import("b", "css")>>),
   Code(<<ImportWith("a", Lang)>>),
   Code(<<ImportWith("b", ("type" :> "json") @@ Lang)>>),
   Code(<<ImportWith("b", ("type" :> "css") @@ Lang)>>)}

\* The call of a registering operation on its own: the operation, its
\* arguments, the module map before it, and its result.
RegistryCall(fn, name, module_type, main, code, before, r) ==
  [called |-> TRUE, fn |-> fn, module_id |-> r.id,
   id |-> 0, outcome |-> IF r.ok THEN "ok" ELSE "err", error |-> r.error,
   request |-> ModuleRequest(name, AmtFromModuleType(module_type)),
   source |-> [code |-> code, module_type |-> module_type,
               module_url_specified |-> name, module_url_found |-> name],
   main |-> main, before |-> before]

Aliases(mm) ==
  {key \in DOMAIN mm.by_name : mm.by_name[key].tag = "Alias"}

NewEsModule(main, name, code) ==
  /\ Len(module_map.info) < MaxModules
  /\ \E r \in {new_es_module(module_map, main, name, code)} :
       /\ module_map' = r.mm
       /\ last_call' = RegistryCall("new_es_module", name, "JavaScript", main,
                                    code, module_map, r)
  /\ UNCHANGED <<loader, cell, lsp, loads, phase, error, load_calls, hung, snapshot,
                 resolution, prepare_calls>>

NewJsonModule(name, code) ==
  /\ Len(module_map.info) < MaxModules
  /\ \E r \in {new_json_module(module_map, name, code)} :
       /\ module_map' = r.mm
       /\ last_call' = RegistryCall("new_json_module", name, "Json", FALSE,
                                    code, module_map, r)
  /\ UNCHANGED <<loader, cell, lsp, loads, phase, error, load_calls, hung, snapshot,
                 resolution, prepare_calls>>

AliasName(name, amt, target) ==
  /\ Cardinality(Aliases(module_map)) < MaxAliases
  /\ module_map' = alias(module_map, name, amt, target)
  /\ last_call' =
       RegistryCall("alias", name,
                    IF amt = "Json" THEN "Json" ELSE "JavaScript", FALSE,
                    Code(<<>>), module_map, RegOk(module_map', NoId))
  /\ UNCHANGED <<loader, cell, lsp, loads, phase, error, load_calls, hung, snapshot,
                 resolution, prepare_calls>>

RegistryNext ==
  \/ \E main \in BOOLEAN, name \in RegistryNames, code \in RegistryCodes :
       NewEsModule(main, name, code)
  \/ \E name \in RegistryNames, code \in {SyntaxError, Code(<<>>)} :
       NewJsonModule(name, code)
  \/ \E name \in RegistryNames, amt \in AssertedModuleType,
         target \in RegistryNames :
       AliasName(name, amt, target)

RegistryInit == Init /\ loader = DiamondLoader

RegistrySpec == RegistryInit /\ [][RegistryNext]_vars

\* The engine evaluates a JSON module, once: it calls the evaluation steps
\* of the synthetic module.
JsonModuleEvaluationSteps(handle) ==
  /\ get_info_by_id(module_map, handle).module_type = "Json"
  /\ handle \notin module_map.evaluated
  /\ \E r \in {json_module_evaluation_steps(module_map, handle)} :
       /\ module_map' = r.mm
       /\ last_call' =
            [RegistryCall("json_module_evaluation_steps",
                          get_info_by_id(module_map, handle).name, "Json",
                          FALSE, Code(<<>>), module_map, r)
               EXCEPT !.module_id = handle,
                      !.outcome = IF r.ok THEN "ok" ELSE "panic"]
  /\ UNCHANGED <<loader, cell, lsp, loads, phase, error, load_calls, hung, snapshot,
                 resolution, prepare_calls>>

\* A snapshot is taken and the runtime that is created from it takes the
\* place of the one that made it: its module map is a new one with the data
\* of the snapshot, over the modules of the snapshot in the state the engine
\* recorded.
SnapshotRestore(order) ==
  /\ ~snapshot.taken
  /\ module_map.handles # <<>>
  /\ LET data == serialize_for_snapshotting(module_map, order) IN
     module_map' =
       update_with_snapshot_data(
         [NewModuleMap EXCEPT !.evaluated = module_map.evaluated],
         data.array, data.handles)
  /\ snapshot' = [taken |-> TRUE, restored |-> module_map']
  /\ last_call' = NoCall
  /\ UNCHANGED <<loader, cell, lsp, loads, phase, error, load_calls, hung,
                 resolution, prepare_calls>>

\* JSON and ES modules are registered under the names of RegistryNames, JSON
\* modules are evaluated, and the registry is restored from a snapshot.
JsonNext ==
  \/ \E name \in RegistryNames, code \in {SyntaxError, Code(<<>>)} :
       NewJsonModule(name, code)
  \/ \E name \in RegistryNames :
       NewEsModule(FALSE, name, Code(<<Import("b", "json")>>))
  \/ \E handle \in {module_map.handles[i] : i \in DOMAIN module_map.handles} :
       JsonModuleEvaluationSteps(handle)
  \/ \E order \in Orders(DOMAIN module_map.by_name) : SnapshotRestore(order)

JsonSpec == NewRuntime(JsonLoader) /\ [][JsonNext]_vars

\* The engine calls resolve_callback while it instantiates a module: the
\* import is one of any module, with any type assertion.
TypeAssertions == {"", "json", "css"}

ResolveCallback(specifier, referrer, type_assertion) ==
  /\ ~hung
  /\ \E r \in {resolve_callback(module_map, specifier, referrer,
                                 Import(specifier, type_assertion))} :
       /\ module_map' = r.mm
       /\ resolution' =
            [fn |-> "resolve_callback",
             flag |-> snapshot_loaded_and_not_snapshotting,
             wrapped |-> "Loader", specifier |-> specifier,
             referrer |-> referrer, type_assertion |-> type_assertion,
             result |-> resolve_helper(snapshot_loaded_and_not_snapshotting,
                                       specifier, referrer),
             outcome |-> r.outcome, handle |-> r.handle]
  /\ UNCHANGED <<loader, cell, lsp, loads, phase, error, load_calls, hung, last_call,
                 snapshot, prepare_calls>>

\* A module map that is used by one load only.
SoloStart ==
  /\ module_map.next_load_id = 1
  /\ \E specifier \in RootSpecifiers :
       \/ LoadMain(specifier)
       \/ LoadSide(specifier)
       \/ \E amt \in AssertedModuleType : LoadDynamicImport(specifier, amt)

SoloNext ==
  \/ SoloStart
  \/ \E id \in LoadIds : Prepare(id)
  \/ \E id \in LoadIds : PrepareDynImport(id)
  \/ \E id \in LoadIds : PollInit(id)
  \/ \E id \in LoadIds : \E fetch \in loads[id].pending : FetchReady(id, fetch)
  \/ \E id \in LoadIds : PollDone(id)
  \/ \E id \in LoadIds : Abandon(id)

SoloSpec == Init /\ [][SoloNext]_vars

\* The driver polls the load as long as it is not finished, and every fetch
\* that can complete does.
SoloFairSpec == SoloSpec /\ WF_vars(SoloNext)

\* Documents::open: the document is opened in the store and leaves the
\* shared file system documents.
DocumentsOpen(store, specifier, language_id, parses) ==
  /\ lsp' = [lsp EXCEPT
               !.open_docs[store] =
                  Put(@, specifier, Document_open(specifier, 1, language_id, parses)),
               !.file_system_docs = Remove(@, specifier),
               !.returned = NoDocumentsCall]
  /\ UNCHANGED <<module_map, loader, cell, loads, phase, error, load_calls, hung,
                 last_call, snapshot, resolution, prepare_calls>>

\* Documents::close: the open document is removed, or else the file system
\* document; NotFound when there is neither.
DocumentsClose(store, specifier) ==
  /\ \/ specifier \in DOMAIN lsp.open_docs[store]
     \/ specifier \in DOMAIN lsp.file_system_docs
  /\ lsp' = IF specifier \in DOMAIN lsp.open_docs[store]
              THEN [lsp EXCEPT !.open_docs[store] = Remove(@, specifier),
                               !.returned = NoDocumentsCall]
              ELSE [lsp EXCEPT !.file_system_docs = Remove(@, specifier),
                               !.returned = NoDocumentsCall]
  /\ UNCHANGED <<module_map, loader, cell, loads, phase, error, load_calls, hung,
                 last_call, snapshot, resolution, prepare_calls>>

\* Documents::get of a specifier that is not open in the store and not yet
\* among the file system documents: FileSystemDocuments::get reads it from
\* disk (refresh_document) and keeps it.
DocumentsGet(store, specifier, parses) ==
  /\ specifier \notin DOMAIN lsp.open_docs[store]
  /\ specifier \notin DOMAIN lsp.file_system_docs
  /\ lsp' = [lsp EXCEPT
               !.file_system_docs = Put(@, specifier, Document_new(specifier, parses)),
               !.returned = NoDocumentsCall]
  /\ UNCHANGED <<module_map, loader, cell, loads, phase, error, load_calls, hung,
                 last_call, snapshot, resolution, prepare_calls>>

\* documents.clone(): the second store gets a copy of open_docs of the
\* first and goes on sharing file_system_docs.
DocumentsClone ==
  /\ lsp.open_docs[2] # lsp.open_docs[1]
  /\ lsp' = [lsp EXCEPT !.open_docs[2] = lsp.open_docs[1],
                        !.returned = NoDocumentsCall]
  /\ UNCHANGED <<module_map, loader, cell, loads, phase, error, load_calls, hung,
                 last_call, snapshot, resolution, prepare_calls>>

\* Documents::documents(open_only, diagnosable_only) on a store.
DocumentsCall(store, open_only, diagnosable_only, open_order, fs_order) ==
  /\ lsp' = [lsp EXCEPT
               !.returned =
                  [called |-> TRUE, store |-> store, open_only |-> open_only,
                   diagnosable_only |-> diagnosable_only,
                   docs |-> documents(lsp.open_docs[store], lsp.file_system_docs,
                                      open_only, diagnosable_only,
                                      open_order, fs_order)]]
  /\ UNCHANGED <<module_map, loader, cell, loads, phase, error, load_calls, hung,
                 last_call, snapshot, resolution, prepare_calls>>

DocumentsNext ==
  \/ \E store \in Stores, specifier \in DocSpecifiers,
        language_id \in LanguageId, parses \in BOOLEAN :
       DocumentsOpen(store, specifier, language_id, parses)
  \/ \E store \in Stores, specifier \in DocSpecifiers :
       DocumentsClose(store, specifier)
  \/ \E store \in Stores, specifier \in DocSpecifiers, parses \in BOOLEAN :
       DocumentsGet(store, specifier, parses)
  \/ DocumentsClone
  \/ \E store \in Stores, open_only \in BOOLEAN, diagnosable_only \in BOOLEAN :
       \E open_order \in Orders(DOMAIN lsp.open_docs[store]),
          fs_order \in Orders(DOMAIN lsp.file_system_docs) :
         DocumentsCall(store, open_only, diagnosable_only, open_order, fs_order)

DocumentsSpec == NewRuntime(DiamondLoader) /\ [][DocumentsNext]_vars

\* A call of normalize_specifier by an op of the compiler host.
NormalizeSpecifier(specifier) ==
  /\ resolution' = [NoResolution EXCEPT
                      !.fn = "normalize_specifier",
                      !.specifier = specifier,
                      !.result = normalize_specifier(specifier)]
  /\ UNCHANGED <<module_map, loader, cell, lsp, loads, phase, error, load_calls,
                 hung, last_call, snapshot, prepare_calls>>

TscNext == \E specifier \in TscSpecifiers : NormalizeSpecifier(specifier)

TscSpec == NewRuntime(DiamondLoader) /\ [][TscNext]_vars

\* One load, and a call of resolve_callback at any moment; the load goes on
\* as long as no call is on record.
CallbackNext ==
  \/ resolution = NoResolution /\ SoloNext
  \/ \E specifier \in RootSpecifiers, type_assertion \in TypeAssertions :
       ResolveCallback(specifier, EntryReferrer, type_assertion)

CallbackSpec == Init /\ [][CallbackNext]_vars


\* ------------------------------------------------------------------------
\* Properties
\* ------------------------------------------------------------------------

\* The loads that exist as objects: created, and not yet dropped.
Live == {id \in LoadIds : phase[id] \in {"preparing", "streaming"}}

Range(seq) == {seq[i] : i \in 1..Len(seq)}

\* The number of loader.load calls load id made for a specifier, whatever
\* the asserted type of the request.
CallsForSpecifier(id, s) ==
  load_calls[id][ModuleRequest(s, "JavaScriptOrWasm")]
    + load_calls[id][ModuleRequest(s, "Json")]

\* The registered modules that import a request.
Importers(r) ==
  {i \in 1..Len(module_map.info) : r \in Range(module_map.info[i].requests)}

\* C1 as stated: within one load, loader.load is called at most once per
\* specifier, whatever the asserted types it is requested with.
C1_OncePerSpecifier ==
  \A id \in LoadIds : \A s \in Specs : CallsForSpecifier(id, s) <= 1

\* C1, amended: within one load, loader.load is called at most once per
\* distinct ModuleRequest (specifier, asserted type), also when several
\* modules import the request while its fetch is in flight.
C1_OncePerRequest ==
  \A id \in LoadIds : \A r \in Requests : load_calls[id][r] <= 1

\* A fetch is in flight, was requested once, and two registered modules
\* import it.
C1_Witness ==
  \E id \in Live : \E r \in Requests :
    /\ Fetch(r, FALSE) \in loads[id].pending
    /\ load_calls[id][r] = 1
    /\ Cardinality(Importers(r)) >= 2

\* The ids of the modules reachable from a set of module ids through
\* ModuleInfo.requests, each request looked up by get_id.
RECURSIVE ReachableModules(_, _)
ReachableModules(mm, seen) ==
  LET next == {id \in 0..(Len(mm.info) - 1) :
                 \E m \in seen : \E r \in Range(get_requested_modules(mm, m)) :
                    get_id(mm, r.specifier, r.asserted_module_type) = id}
  IN IF next \subseteq seen THEN seen ELSE ReachableModules(mm, seen \cup next)

\* Every import of every module reachable from module id resolves to a
\* registered module.
GraphRegistered(mm, id) ==
  \A m \in ReachableModules(mm, {id}) :
    \A r \in Range(get_requested_modules(mm, m)) :
      get_id(mm, r.specifier, r.asserted_module_type) \in 0..(Len(mm.info) - 1)

\* C2: whenever a load is in state Done, every import of every module
\* reachable from its root resolves through get_id to a registered module.
C2_DoneGraphRegistered ==
  \A id \in Live :
    loads[id].state = "Done" => GraphRegistered(module_map, loads[id].root_module_id)

\* The last step was a register_and_recurse call that returned Ok for a
\* source the loader found under another specifier than the requested one.
RedirectRegistered ==
  /\ last_call.called
  /\ last_call.outcome = "ok"
  /\ last_call.source.module_url_specified # last_call.source.module_url_found

\* The loader redirects a specifier.
Redirected(s) ==
  /\ s \in Specs
  /\ loader[s].kind = "src"
  /\ loader[s].module_url_found # s

\* Both specifiers of the source of the last call resolve to one registered
\* module.
SameModuleId ==
  LET amt == last_call.request.asserted_module_type
      id == get_id(module_map, last_call.source.module_url_specified, amt)
  IN /\ id \in 0..(Len(module_map.info) - 1)
     /\ id = get_id(module_map, last_call.source.module_url_found, amt)

TypeMismatched ==
  /\ last_call.called
  /\ last_call.request.asserted_module_type #
       (IF last_call.source.module_type = "Json" THEN "Json"
        ELSE "JavaScriptOrWasm")

\* The call of the last step registered nothing.
NothingRegistered ==
  /\ module_map.handles = last_call.before.handles
  /\ module_map.info = last_call.before.info
  /\ module_map.by_name = last_call.before.by_name

\* C5: register_and_recurse fails whenever the type of the source does not
\* fit the asserted type of the request (a Json source without the json
\* assertion, a JavaScript source with it), and registers no module.
C5_TypeMismatchFails ==
  TypeMismatched =>
    /\ last_call.outcome = "err"
    /\ last_call.error = "TypeMismatch"
    /\ NothingRegistered

\* A Json source was delivered for a request without the json assertion, and
\* the call failed.
C5_Witness ==
  /\ TypeMismatched
  /\ last_call.source.module_type = "Json"
  /\ last_call.outcome = "err"

\* The loads created by load_main.
MainLoads == {id \in LoadIds : loads[id].init.kind = "Main"}

\* C6: once load_main(A) has completed, a load_main of another specifier B
\* does not succeed.
C6_OtherMainFails ==
  \A i \in MainLoads : \A j \in MainLoads :
    (/\ i < j
     /\ phase[i] = "finished"
     /\ loads[i].init.specifier # loads[j].init.specifier)
    => loads[j].state # "Done"

\* C7: once a load_main load has completed, every later load_main load on the
\* same module map, whatever its root, ends with an error and does not
\* complete.
C7_LaterMainEndsWithError ==
  \A i \in MainLoads : \A j \in MainLoads :
    (i < j /\ phase[i] = "finished") => phase[j] # "finished"

\* The modules registered with main = true.
MainModules(mm) == {i \in 1..Len(mm.info) : mm.info[i].main}

\* The last step was a register_and_recurse call that called new_es_module
\* with main = true while a module with main = true was registered.
SecondMainCompiled ==
  /\ last_call.called
  /\ last_call.main
  /\ ~TypeMismatched
  /\ last_call.source.module_type = "JavaScript"
  /\ MainModules(last_call.before) # {}
  /\ LET specified == last_call.source.module_url_specified
         found == last_call.source.module_url_found
         amt == last_call.request.asserted_module_type
         mm1 == IF specified # found
                  THEN [last_call.before EXCEPT
                          !.by_name = (<<specified, amt>> :> Alias(found)) @@ @]
                  ELSE last_call.before
     IN get_id(mm1, found, amt) = NoId

\* The source of the last call compiles, and its imports validate and resolve.
SourceCompiles ==
  /\ last_call.source.code.kind = "ok"
  /\ \A i \in 1..Len(last_call.source.code.imports) :
       LET import == last_call.source.code.imports[i] IN
       /\ validate_import_assertions(import)
       /\ import.specifier \in Specs

\* C8 as stated: at most one ModuleInfo has main = true, and new_es_module
\* called with main = true while a main module exists returns the Other error
\* and adds no entry.
C8_SecondMainIsOtherError ==
  /\ Cardinality(MainModules(module_map)) <= 1
  /\ SecondMainCompiled =>
       /\ last_call.outcome = "err"
       /\ last_call.error = "MainExists"
       /\ module_map.info = last_call.before.info

\* C8, amended: at most one ModuleInfo has main = true, and new_es_module
\* called with main = true while a main module exists returns an error and
\* adds no entry; the error is the Other error of the second main module when
\* the source compiles and its imports validate and resolve, and the error of
\* that earlier step otherwise.
C8_SingleMain ==
  /\ Cardinality(MainModules(module_map)) <= 1
  /\ SecondMainCompiled =>
       /\ last_call.outcome = "err"
       /\ module_map.info = last_call.before.info
       /\ module_map.handles = last_call.before.handles
       /\ IF SourceCompiles THEN last_call.error = "MainExists"
          ELSE last_call.error \in {"Exception", "Other"}

\* new_es_module has refused a second main module.
C8_Witness ==
  /\ SecondMainCompiled
  /\ last_call.error = "MainExists"
  /\ Cardinality(MainModules(module_map)) = 1

\* The loads created by load_dynamic_import for a root that was not
\* registered when the load was created.
FreshDynamicImports ==
  {id \in LoadIds : /\ loads[id].init.kind = "DynamicImport"
                    /\ loads[id].root_module_type = NoType}

\* C10: two dynamic imports of one specifier, both created before the module
\* is registered, complete with the same root ModuleId, and loader.load is
\* called once for that specifier across the two loads.
C10_ConcurrentImportsLoadOnce ==
  \A i \in FreshDynamicImports : \A j \in FreshDynamicImports :
    (/\ i < j
     /\ loads[i].init = loads[j].init
     /\ loads[i].state = "Done"
     /\ loads[j].state = "Done")
    => /\ loads[i].root_module_id = loads[j].root_module_id
       /\ CallsForSpecifier(i, loads[i].init.specifier)
            + CallsForSpecifier(j, loads[j].init.specifier) = 1

\* The load of the cyclic graph: a root that resolves, without the json
\* assertion.
CycleLoad ==
  /\ loader = CircularLoader
  /\ 1 \in LoadIds
  /\ loads[1].init.specifier \in Specs
  /\ InitAssertedModuleType(loads[1].init) = "JavaScriptOrWasm"

\* The load is Done, loader.load was called exactly once for each module and
\* each module has exactly one entry of the registry.
CycleDone ==
  /\ 1 \in LoadIds
  /\ loads[1].state = "Done"
  /\ \A s \in Specs : CallsForSpecifier(1, s) = 1
  /\ Len(module_map.info) = Cardinality(Specs)
  /\ \A s \in Specs :
       Cardinality({i \in 1..Len(module_map.info) : module_map.info[i].name = s}) = 1

\* C4: the load of the cyclic graph a -> b, b -> c, c -> a, b reaches Done when
\* every fetch completes, with exactly one loader.load call and one entry of
\* the registry for each module.
C4_CycleReachesDone == CycleLoad ~> CycleDone

\* The cyclic graph has been loaded.
C4_Witness == CycleLoad /\ CycleDone

\* The (name, asserted type) pairs a module map may be asked for.
Names == (Specs \cup {Unresolvable}) \X AssertedModuleType

\* C9: the module map restored from the snapshot of a module map has the same
\* next_load_id, the same info element by element and the same by_name (an
\* Alias is an Alias of the same target, a Bound entry has the same id), so
\* that get_id gives the same result for every name and asserted type.
C9_SnapshotRoundTrip ==
  snapshot.taken =>
    /\ snapshot.restored.next_load_id = module_map.next_load_id
    /\ Len(snapshot.restored.info) = Len(module_map.info)
    /\ \A i \in 1..Len(module_map.info) :
         snapshot.restored.info[i] = module_map.info[i]
    /\ DOMAIN snapshot.restored.by_name = DOMAIN module_map.by_name
    /\ \A key \in DOMAIN module_map.by_name :
         snapshot.restored.by_name[key] = module_map.by_name[key]
    /\ \A key \in Names :
         get_id(snapshot.restored, key[1], key[2]) = get_id(module_map, key[1], key[2])

\* A snapshot was taken of a module map that holds an Alias, a Bound entry
\* and a module with imports, and was restored.
C9_Witness ==
  /\ snapshot.taken
  /\ \E key \in DOMAIN snapshot.restored.by_name :
       snapshot.restored.by_name[key].tag = "Alias"
  /\ \E key \in DOMAIN snapshot.restored.by_name :
       snapshot.restored.by_name[key].tag = "Mod"
  /\ \E i \in 1..Len(snapshot.restored.info) :
       snapshot.restored.info[i].requests # <<>>

\* ------------------------------------------------------------------------
\* Resolution of the internal scheme
\* ------------------------------------------------------------------------

HelperCalled == resolution.fn = "resolve_helper"

Delegated ==
  resolution.result = LoaderResolve(resolution.specifier, resolution.referrer)

Refused == resolution.result = ResolveErr(resolution.specifier, CannotLoadInternal)

\* C11, as stated: with the flag set, resolve_helper refuses a specifier
\* internal:X from a file referrer and delegates it to the loader from an
\* internal referrer; with the flag clear it always delegates.
C11_InternalReferrerDelegates ==
  HelperCalled =>
    IF resolution.flag /\ starts_with_internal(resolution.specifier)
      THEN /\ UrlScheme(resolution.referrer) = "file" => Refused
           /\ UrlScheme(resolution.referrer) = "internal" => Delegated
      ELSE resolution.flag = FALSE => Delegated

\* C11, amended: with the flag set, resolve_helper refuses a specifier
\* internal:X whatever the referrer is, the internal referrers included, and
\* delegates every other specifier to the loader; with the flag clear it
\* always delegates.
C11_FlagRefusesEveryReferrer ==
  HelperCalled =>
    IF resolution.flag /\ starts_with_internal(resolution.specifier)
      THEN Refused
      ELSE Delegated

\* resolve_helper refused internal:X from an internal referrer, which the
\* loader would have resolved.
C11_Witness ==
  /\ HelperCalled
  /\ resolution.flag
  /\ starts_with_internal(resolution.specifier)
  /\ UrlScheme(resolution.referrer) = "internal"
  /\ Refused
  /\ LoaderResolve(resolution.specifier, resolution.referrer).ok

InternalCalled == resolution.fn = "InternalModuleLoader::resolve"

\* C12: InternalModuleLoader::resolve returns a result for every specifier
\* and referrer and never aborts: an internal specifier resolves to itself
\* from the referrer "." and from an internal referrer and is refused from
\* every other referrer, and any other specifier gets the answer of the
\* wrapped loader.
C12_InternalResolveTotal ==
  InternalCalled =>
    /\ resolution.result # Panicked
    /\ IF UrlScheme(resolution.specifier) = "internal"
         THEN IF \/ resolution.referrer = "."
                 \/ UrlScheme(resolution.referrer) = "internal"
                THEN resolution.result = ResolveOk(resolution.specifier)
                ELSE Refused
         ELSE resolution.result =
                WrappedResolve(resolution.wrapped, resolution.specifier,
                               resolution.referrer)

\* ------------------------------------------------------------------------
\* Alias chains
\* ------------------------------------------------------------------------

\* C13: get_id terminates for every name in every reachable module map: the
\* Alias entries never form a cycle, and no call of get_id loops forever.
C13_GetIdTerminates ==
  /\ ~hung
  /\ \A key \in DOMAIN module_map.by_name :
       get_id(module_map, key[1], key[2]) # Diverges

\* ------------------------------------------------------------------------
\* The registry after a failure
\* ------------------------------------------------------------------------

Failing(id) == phase[id] # "failed" /\ phase'[id] = "failed"

\* Every by_name entry, handle and ModuleInfo of `before` is in `after`,
\* unchanged.
Kept(before, after) ==
  /\ \A key \in DOMAIN before.by_name :
       /\ key \in DOMAIN after.by_name
       /\ after.by_name[key] = before.by_name[key]
  /\ Len(after.handles) >= Len(before.handles)
  /\ \A i \in 1..Len(before.handles) : after.handles[i] = before.handles[i]
  /\ Len(after.info) >= Len(before.info)
  /\ \A i \in 1..Len(before.info) : after.info[i] = before.info[i]

\* C14: the step in which a load fails (fetch error, type mismatch, compile
\* or JSON parse exception, invalid assertion, duplicate main) rolls nothing
\* back: every by_name entry, the aliases included, every handle and every
\* ModuleInfo that was there before the step is there, unchanged, after it.
C14_FailureKeepsRegistry ==
  [][\A id \in LoadIds : Failing(id) => Kept(module_map, module_map')]_vars

\* ------------------------------------------------------------------------
\* The sequence of a load after an error
\* ------------------------------------------------------------------------

\* C15: a fetch error, a resolution error or an error of register_and_recurse
\* is the last item of the sequence of its load: the load as that step leaves
\* it yields no further (request, source) item and no second error when it is
\* polled again.
C15_ErrorIsLastItem ==
  [][\A id \in LoadIds :
       /\ (PollInit(id) /\ phase'[id] = "failed")
            => poll_next_items(loads[id]) = {}
       /\ \A fetch \in loads[id].pending :
            (FetchReady(id, fetch) /\ phase'[id] = "failed")
              => poll_next_items(StreamAfter(id, fetch)) = {}]_vars

\* ------------------------------------------------------------------------
\* A root that is registered when its load is created
\* ------------------------------------------------------------------------

\* RecursiveModuleLoad::new found the root in the module map: only then is
\* root_module_type set.
RegisteredAtCreation(load) == load.root_module_type # NoType

RootRequest(load) ==
  ModuleRequest(resolve_root(load).specifier, InitAssertedModuleType(load.init))

\* C16: a load whose resolved root is registered with a compatible asserted
\* type when the load is created never calls loader.load for the root and
\* keeps the ModuleId it found; the synthesized source of the root goes
\* through register_and_recurse and registers nothing; and a dynamic import
\* of such a root never calls prepare_load.
C16_RegisteredRootNotFetched ==
  [][\A id \in LoadIds :
       RegisteredAtCreation(loads[id]) =>
         /\ load_calls'[id][RootRequest(loads[id])] = 0
         /\ loads'[id].root_module_id = loads[id].root_module_id
         /\ is_dynamic_import(loads[id]) => prepare_calls'[id] = 0
         /\ \A fetch \in loads[id].pending :
              (fetch.fake /\ FetchReady(id, fetch)) =>
                /\ last_call'.called
                /\ last_call'.source.code = Code(<<>>)
                /\ last_call'.outcome = "ok"
                /\ Len(module_map'.info) = Len(module_map.info)]_vars

\* ------------------------------------------------------------------------
\* prepare_load
\* ------------------------------------------------------------------------

LoadCalls(id) == {r \in Requests : load_calls[id][r] > 0}

Prepared(id) == phase[id] # "preparing"

\* C17, as stated: every load calls prepare_load exactly once, before its
\* first loader.load call: a load that has called loader.load or has ended
\* has one prepare_load call behind it.
C17_PreparedExactlyOnce ==
  \A id \in LoadIds :
    /\ prepare_calls[id] <= 1
    /\ LoadCalls(id) # {} => prepare_calls[id] = 1
    /\ phase[id] \in {"finished", "failed"} => prepare_calls[id] = 1

\* The loads whose prepare() reaches prepare_load: the root resolves, and the
\* load is not a dynamic import of a root that was registered already.
CallsPrepareLoad(id) ==
  /\ resolve_root(loads[id]).ok
  /\ ~(is_dynamic_import(loads[id]) /\ RegisteredAtCreation(loads[id]))

\* C17, amended: a load calls prepare_load at most once: once when its root
\* resolves and it is not a dynamic import of an already registered root,
\* and never otherwise; a load that is still preparing has called
\* loader.load for nothing, so the call comes before every loader.load call
\* of the load.
C17_PreparedAtMostOnce ==
  \A id \in LoadIds :
    /\ prepare_calls[id] = IF Prepared(id) /\ CallsPrepareLoad(id) THEN 1 ELSE 0
    /\ ~Prepared(id) => LoadCalls(id) = {}

\* One load has called prepare_load and then loader.load, and a dynamic
\* import of a registered root has ended without a prepare_load call.
C17_Witness ==
  /\ \E id \in LoadIds :
       prepare_calls[id] = 1 /\ LoadCalls(id) # {}
  /\ \E id \in LoadIds :
       /\ is_dynamic_import(loads[id])
       /\ RegisteredAtCreation(loads[id])
       /\ phase[id] = "finished"
       /\ prepare_calls[id] = 0

\* ------------------------------------------------------------------------
\* load_dynamic_import
\* ------------------------------------------------------------------------

\* C18: load_dynamic_import never settles the import itself: every call
\* returns, records the resolver in dynamic_import_map under the id of the
\* new load, and pushes exactly one future onto preparing_dynamic_imports,
\* which carries the resolution error if there is one; the load is settled
\* only when the event loop takes that future.
C18_DynamicImportQueued ==
  [][\A specifier \in RootSpecifiers, amt \in AssertedModuleType :
       (/\ module_map'.next_load_id # module_map.next_load_id
        /\ LoadDynamicImport(specifier, amt)) =>
         LET id == module_map.next_load_id
             pushed == module_map'.preparing_dynamic_imports
                         \ module_map.preparing_dynamic_imports
         IN /\ ~hung'
            /\ id \notin module_map.dynamic_import_map
            /\ module_map'.dynamic_import_map =
                 module_map.dynamic_import_map \cup {id}
            /\ Cardinality(pushed) = 1
            /\ \A p \in pushed :
                 /\ p.id = id
                 /\ p.fut = "Err" <=>
                      ~resolve_helper(snapshot_loaded_and_not_snapshotting,
                                      specifier, EntryReferrer).ok
            /\ module_map'.pending_dynamic_imports =
                 module_map.pending_dynamic_imports
            /\ phase'[id] = "preparing"
            /\ error'[id] = ""]_vars

\* A dynamic import whose specifier does not resolve is recorded in
\* dynamic_import_map and waits, unsettled, with the error in its future.
C18_Witness ==
  \E p \in module_map.preparing_dynamic_imports :
    /\ p.fut = "Err"
    /\ p.id \in module_map.dynamic_import_map
    /\ phase[p.id] = "preparing"
    /\ error[p.id] = ""
    /\ ~resolve_root(loads[p.id]).ok

\* ------------------------------------------------------------------------
\* resolve_callback
\* ------------------------------------------------------------------------

CallbackCalled == resolution.fn = "resolve_callback"

\* C19: resolve_callback only reads the registry: a call leaves handles,
\* info, by_name, next_load_id, dynamic_import_map and both queues of
\* dynamic imports as they were, and calls neither loader.load nor
\* prepare_load.
C19_CallbackReadsOnly ==
  [][\A specifier \in RootSpecifiers, type_assertion \in TypeAssertions :
       ResolveCallback(specifier, EntryReferrer, type_assertion) =>
         /\ module_map' = module_map
         /\ load_calls' = load_calls
         /\ prepare_calls' = prepare_calls
         /\ loads' = loads]_vars

\* resolve_callback returned the handle of a registered module while a
\* dynamic import was in the queue of pending loads of the module map.
C19_Witness ==
  /\ CallbackCalled
  /\ resolution.outcome = "Some"
  /\ module_map.handles # <<>>
  /\ module_map.dynamic_import_map # {}
  /\ module_map.pending_dynamic_imports # {}

\* The asserted type resolve_callback looks up: Json exactly for the
\* assertion type = "json".
CallbackType ==
  IF resolution.type_assertion = "json" THEN "Json" ELSE "JavaScriptOrWasm"

\* C20: resolve_callback never panics: it returns the handle of the module
\* bound to (resolved specifier, asserted type), and None whenever no such
\* module is registered, also when the specifier cannot be resolved.
C20_CallbackNeverPanics ==
  CallbackCalled =>
    LET id == IF resolution.result.ok
                THEN get_id(module_map, resolution.result.specifier,
                            CallbackType)
                ELSE NoId
    IN /\ resolution.outcome # "panic"
       /\ IF id >= 0
            THEN /\ resolution.outcome = "Some"
                 /\ resolution.handle = module_map.handles[id + 1]
            ELSE resolution.outcome = "None"

\* ------------------------------------------------------------------------
\* Import assertions in new_es_module
\* ------------------------------------------------------------------------

EsModuleCalled == last_call.fn = "new_es_module"

CalledImports == last_call.source.code.imports

InvalidType(import) ==
  /\ "type" \in DOMAIN import.assertions
  /\ import.assertions["type"] # "json"

HasInvalidType ==
  /\ last_call.source.code.kind = "ok"
  /\ \E i \in DOMAIN CalledImports : InvalidType(CalledImports[i])

RegistryKept ==
  /\ module_map.handles = last_call.before.handles
  /\ module_map.info = last_call.before.info
  /\ module_map.by_name = last_call.before.by_name

\* The import without its assertions other than `type`.
TypeOnly(import) ==
  ImportWith(import.specifier,
             [key \in DOMAIN import.assertions \cap {"type"} |->
                import.assertions[key]])

\* The result of the call does not depend on assertion keys other than
\* `type`: the same call on the imports without them gives the same result.
OtherKeysIgnored ==
  new_es_module(last_call.before, last_call.main,
                last_call.source.module_url_found,
                [last_call.source.code EXCEPT
                   !.imports = [i \in DOMAIN CalledImports |->
                                  TypeOnly(CalledImports[i])]])
    = [ok |-> last_call.outcome = "ok", error |-> last_call.error,
       mm |-> module_map, id |-> last_call.module_id]

\* C21, as stated: new_es_module returns the Exception error for a module
\* with an import whose type assertion is not "json" and leaves handles, info
\* and by_name unchanged; other assertion keys cause no error and do not
\* change the requests.
C21_InvalidTypeIsException ==
  EsModuleCalled =>
    /\ HasInvalidType =>
         /\ last_call.outcome = "err"
         /\ last_call.error = "Exception"
         /\ RegistryKept
    /\ OtherKeysIgnored

\* An import before the first import with an invalid type does not resolve.
UnresolvedBeforeInvalid ==
  \E i \in DOMAIN CalledImports :
    /\ ~resolve_helper(snapshot_loaded_and_not_snapshotting,
                       CalledImports[i].specifier,
                       last_call.source.module_url_found).ok
    /\ \A j \in 1..i : ~InvalidType(CalledImports[j])

\* C21, amended: new_es_module returns an error for a module with an import
\* whose type assertion is not "json" and leaves handles, info and by_name
\* unchanged; the error is the Exception unless an earlier import of the
\* module does not resolve, and then it is the resolution error; other
\* assertion keys cause no error and do not change the requests.
C21_InvalidTypeIsRejected ==
  EsModuleCalled =>
    /\ HasInvalidType =>
         /\ last_call.outcome = "err"
         /\ last_call.error =
              IF UnresolvedBeforeInvalid THEN "Other" ELSE "Exception"
         /\ RegistryKept
    /\ OtherKeysIgnored

\* new_es_module returned the Exception for a module whose second import has
\* the type "css", on a module map that holds a module already.
C21_Witness ==
  /\ EsModuleCalled
  /\ Len(CalledImports) = 2
  /\ ~InvalidType(CalledImports[1])
  /\ InvalidType(CalledImports[2])
  /\ last_call.error = "Exception"
  /\ last_call.before.info # <<>>
  /\ RegistryKept

\* ------------------------------------------------------------------------
\* C22: a load with a fetch that has not completed is not Done
\* ------------------------------------------------------------------------

\* The specifiers whose fetch never completes.
NeverReadySpecs == {s \in Specs : loader[s].kind = "never"}

\* While a fetch of a load has not completed, the load is not in Done and
\* its stream has not ended.
PendingNotDone ==
  \A id \in LoadIds :
    loads[id].pending # {} =>
      /\ loads[id].state # "Done"
      /\ phase[id] # "finished"

\* C22 as stated: while at least one fetch of a load has not completed the
\* load is not Done and its stream has not ended, and within a load a
\* specifier whose fetch never completes is fetched only once, whatever the
\* modules registered later import.
C22_NeverReadySpecifierOnce ==
  /\ PendingNotDone
  /\ \A id \in LoadIds : \A s \in NeverReadySpecs : CallsForSpecifier(id, s) <= 1

\* C22, amended: while at least one fetch of a load has not completed the
\* load is not Done and its stream has not ended, and within a load a
\* request (specifier, asserted type) whose fetch never completes is fetched
\* only once, whatever the modules registered later import.
C22_NeverReadyRequestOnce ==
  /\ PendingNotDone
  /\ \A id \in LoadIds : \A r \in Requests :
       r.specifier \in NeverReadySpecs => load_calls[id][r] <= 1

\* Every other fetch of a load has completed, the one that never completes
\* is still pending and was fetched once, and a module that was registered
\* after that fetch was created imports its request again.
C22_Witness ==
  \E id \in Live : \E r \in Requests :
    /\ r.specifier \in NeverReadySpecs
    /\ loads[id].pending = {Fetch(r, FALSE)}
    /\ loads[id].state = "LoadingImports"
    /\ load_calls[id][r] = 1
    /\ Cardinality(Importers(r)) >= 2

\* ------------------------------------------------------------------------
\* C23: a load whose fetches all complete ends
\* ------------------------------------------------------------------------

\* A load of a graph in which every fetch completes, with a source or with
\* an error.
EveryFetchCompletes ==
  /\ 1 \in LoadIds
  /\ \A s \in Specs : loader[s].kind # "never"

\* The load is Done with its root module id set, or it has yielded an error.
DoneOrError ==
  /\ 1 \in LoadIds
  /\ \/ loads[1].state = "Done" /\ loads[1].root_module_id # NoId
     \/ phase[1] = "failed" /\ error[1] # ""

\* C23: when every fetch eventually completes and every yielded item is
\* passed to register_and_recurse, the load eventually reaches Done with
\* root_module_id set or yields an error; it does not stay in LoadingRoot or
\* LoadingImports for ever.
C23_LoadEnds == EveryFetchCompletes ~> DoneOrError

\* ------------------------------------------------------------------------
\* C24: the root module id of a load that reaches Done
\* ------------------------------------------------------------------------

\* Load id is in Done with the id that get_id gives for its resolved root
\* specifier and root asserted type in module map mm.
DoneWithRoot(mm, load) ==
  /\ load.state = "Done"
  /\ load.root_module_id # NoId
  /\ load.root_module_id =
       get_id(mm, resolve_root(load).specifier, load.root_asserted_module_type)

Returned(specifier) ==
  {i \in 1..Len(lsp.returned.docs) : lsp.returned.docs[i].specifier = specifier}

\* The specifiers that are both open in the store of the last documents()
\* call and among the shared file system documents.
InBoth ==
  DOMAIN lsp.open_docs[lsp.returned.store] \cap DOMAIN lsp.file_system_docs

AllDocumentsCalled == lsp.returned.called /\ ~lsp.returned.open_only

\* No specifier twice, and for a specifier that is in both maps nothing but
\* the open document.
OpenPreferred ==
  /\ \A specifier \in DocSpecifiers : Cardinality(Returned(specifier)) <= 1
  /\ \A specifier \in InBoth : \A i \in Returned(specifier) :
       lsp.returned.docs[i] = lsp.open_docs[lsp.returned.store][specifier]

\* C25 as stated: documents(false, diagnosable_only) returns no two
\* documents with the same specifier, and for a specifier that is in
\* open_docs and in the shared file system documents it returns exactly one
\* document, the open one.
C25_ExactlyTheOpenDocument ==
  AllDocumentsCalled =>
    /\ OpenPreferred
    /\ \A specifier \in InBoth : Cardinality(Returned(specifier)) = 1

\* C25, amended: documents(false, diagnosable_only) returns no two documents
\* with the same specifier; for a specifier that is in open_docs and in the
\* shared file system documents it returns the open document and nothing
\* else when diagnosable_only is false or the open document is diagnosable,
\* and no document at all otherwise, whether the file system document is
\* diagnosable or not.
C25_OpenDocumentOrNone ==
  AllDocumentsCalled =>
    /\ OpenPreferred
    /\ \A specifier \in InBoth :
         Cardinality(Returned(specifier)) =
           IF \/ ~lsp.returned.diagnosable_only
              \/ is_diagnosable(lsp.open_docs[lsp.returned.store][specifier])
             THEN 1 ELSE 0

\* documents(false, false) was called on a store in which a specifier is
\* open while the shared file system documents hold it too, and returned
\* the open document.
C25_Witness ==
  /\ AllDocumentsCalled
  /\ ~lsp.returned.diagnosable_only
  /\ \E specifier \in InBoth : \E i \in Returned(specifier) :
       is_open(lsp.returned.docs[i])

\* ------------------------------------------------------------------------
\* C26: normalize_specifier collapses a trailing .d.ts.d.ts only
\* ------------------------------------------------------------------------

\* The given string with a trailing .d.ts.d.ts collapsed into .d.ts.
TrailingCollapsed(specifier) ==
  IF ends_with(specifier, DtsDts)
    THEN SubSeq(specifier, 1, Len(specifier) - Len(DtsDts)) \o Dts
    ELSE specifier

\* C26: the string normalize_specifier resolves is the given string with a
\* trailing .d.ts.d.ts collapsed into .d.ts; a specifier that does not end
\* in .d.ts.d.ts is resolved from exactly the string given.
C26_OnlyTrailingCollapsed ==
  resolution.fn = "normalize_specifier" =>
    resolution.result = TrailingCollapsed(resolution.specifier)

\* ------------------------------------------------------------------------
\* C27: the load state only moves forward
\* ------------------------------------------------------------------------

StateRank(state) ==
  CASE state = "Init" -> 0
    [] state = "LoadingRoot" -> 1
    [] state = "LoadingImports" -> 2
    [] OTHER -> 3

\* The step is a register_and_recurse call of load id that returned Ok.
RegisteredOk(id) ==
  /\ last_call'.called
  /\ last_call'.fn = "register_and_recurse"
  /\ last_call'.id = id
  /\ last_call'.outcome = "ok"

\* The step of load id from one state to the next is one the code makes.
ForwardStep(id) ==
  LET before == loads[id]
      after == loads'[id]
  IN /\ StateRank(before.state) <= StateRank(after.state)
     /\ (before.state = "Init" /\ after.state # "Init") =>
          /\ after.state = "LoadingRoot"
          /\ resolve_root(before).ok
          /\ ~last_call'.called
     /\ (before.state # "LoadingImports" /\ after.state = "LoadingImports") =>
          /\ before.state = "LoadingRoot"
          /\ RegisteredOk(id)
          /\ last_call'.request.specifier = resolve_root(before).specifier
          /\ after.root_module_id # NoId
     /\ (before.state # "Done" /\ after.state = "Done") =>
          /\ before.state \in {"LoadingRoot", "LoadingImports"}
          /\ RegisteredOk(id)
          /\ after.pending = {}
     /\ before.state = "Done" =>
          /\ after.state = "Done"
          /\ ~(last_call'.called /\ last_call'.id = id)
          /\ poll_next_items(before) = {}
          /\ poll_next_items(after) = {}

\* C27: the state of a load only moves forward along Init, LoadingRoot,
\* LoadingImports, Done: Init is left by the poll that resolves the root,
\* LoadingImports is entered only by the register_and_recurse call for the
\* root, Done only at the end of a register_and_recurse call that returns Ok
\* with pending empty, and a load in Done stays in Done and every poll of it
\* is the end of the stream.
C27_StateMovesForward ==
  [][\A id \in LoadIds : loads'[id] # loads[id] => ForwardStep(id)]_vars

\* A load went through LoadingImports with a fetch pending, reached Done and
\* was polled to the end of its stream.
C27_Witness ==
  \E id \in LoadIds :
    /\ loads[id].state = "Done"
    /\ phase[id] = "finished"
    /\ Cardinality({r \in Requests : load_calls[id][r] > 0}) >= 2

\* ------------------------------------------------------------------------
\* C28: an alias installed by a successful call resolves
\* ------------------------------------------------------------------------

\* The step is a register_and_recurse call that returned Ok for a source
\* that was found under another name than the one requested.
RedirectRegisteredOk ==
  /\ last_call'.called
  /\ last_call'.fn = "register_and_recurse"
  /\ last_call'.outcome = "ok"
  /\ last_call'.source.module_url_specified # last_call'.source.module_url_found

\* The alias of the call resolves when the call returns.
ResolvesAtReturn ==
  RedirectRegisteredOk =>
    /\ is_alias(module_map', last_call'.source.module_url_specified,
                last_call'.request.asserted_module_type)
    /\ get_id(module_map', last_call'.source.module_url_specified,
              last_call'.request.asserted_module_type) >= 0

\* The aliases of a module map that get_id resolves to a module.
Resolvable(mm) == {key \in Aliases(mm) : get_id(mm, key[1], key[2]) >= 0}

\* No step leaves a name that was a resolvable alias with a look-up that
\* returns None.
StaysResolvable ==
  \A key \in Resolvable(module_map) :
    get_id(module_map', key[1], key[2]) # NoId

\* C28: the alias a register_and_recurse call installs resolves when the
\* call returns Ok, and no later look-up by another operation finds the
\* alias while get_id of its name returns None.
C28_AliasResolvable ==
  [][module_map' # module_map => ResolvesAtReturn /\ StaysResolvable]_vars

\* ------------------------------------------------------------------------
\* C29: a module is registered exactly once
\* ------------------------------------------------------------------------

\* No two ModuleInfo entries have the same name and module type.
RegisteredOnce(mm) ==
  \A i, j \in 1..Len(mm.info) :
    (mm.info[i].name = mm.info[j].name
       /\ mm.info[i].module_type = mm.info[j].module_type) => i = j

\* The module map of a register_and_recurse call after its alias step.
Aliased(call) ==
  IF call.source.module_url_specified # call.source.module_url_found
    THEN alias(call.before, call.source.module_url_specified,
               call.request.asserted_module_type, call.source.module_url_found)
    ELSE call.before

\* The step is a register_and_recurse call for a source whose url_found is
\* bound when it is looked up.
FoundBound ==
  /\ last_call'.called
  /\ last_call'.fn = "register_and_recurse"
  /\ last_call'.request.asserted_module_type =
       AmtFromModuleType(last_call'.source.module_type)
  /\ get_id(Aliased(last_call'), last_call'.source.module_url_found,
            last_call'.request.asserted_module_type) >= 0

\* The call added no handle and no ModuleInfo.
ReusesId ==
  /\ module_map'.handles = last_call'.before.handles
  /\ module_map'.info = last_call'.before.info

\* alias() changes by_name and nothing else.
AliasChangesByName ==
  \A call \in {last_call'} :
    [Aliased(call) EXCEPT !.by_name = call.before.by_name] = call.before

\* C29: after any sequence of register_and_recurse steps of one or several
\* loads no two ModuleInfo entries have the same (name, module_type); a
\* fetch result whose url_found is bound reuses the id and adds no handle;
\* alias() changes only by_name.
C29_RegisteredOnce ==
  [][last_call'.called =>
       /\ RegisteredOnce(module_map')
       /\ FoundBound => ReusesId
       /\ AliasChangesByName]_vars

\* ------------------------------------------------------------------------
\* C30: module ids are the indexes of handles and info
\* ------------------------------------------------------------------------

\* handles and info have the same length and the id of every ModuleInfo is
\* its index (ids count from 0).
IdsAreIndexes(mm) ==
  /\ Len(mm.handles) = Len(mm.info)
  /\ \A i \in 1..Len(mm.info) : mm.info[i].id = i - 1

\* The last step was a new_es_module or new_json_module call that returned
\* an id.
ModuleCreated ==
  /\ last_call.called
  /\ last_call.fn \in {"new_es_module", "new_json_module"}
  /\ last_call.outcome = "ok"

\* C30: in every state of the registry that new_es_module, new_json_module
\* and alias reach, handles and info have the same length and info[i].id = i
\* for every index i, and a newly registered module receives the id that
\* equals the previous length.
C30_IdsAreIndexes ==
  /\ IdsAreIndexes(module_map)
  /\ ModuleCreated =>
       /\ last_call.module_id = Len(last_call.before.handles)
       /\ Len(module_map.handles) = Len(last_call.before.handles) + 1
       /\ get_info_by_id(module_map, last_call.module_id).name =
            last_call.request.specifier

\* A second module was registered in a registry that holds an alias, and
\* received the id 1.
C30_Witness ==
  /\ ModuleCreated
  /\ last_call.module_id = 1
  /\ Len(module_map.info) = 2
  /\ Aliases(module_map) # {}

\* ------------------------------------------------------------------------
\* C31: modules are persistent and ids are stable
\* ------------------------------------------------------------------------

\* Every handle and every ModuleInfo of `before` is in `after` at the same
\* index, unchanged.
ModulesKept(before, after) ==
  /\ Len(after.handles) >= Len(before.handles)
  /\ \A i \in 1..Len(before.handles) : after.handles[i] = before.handles[i]
  /\ Len(after.info) >= Len(before.info)
  /\ \A i \in 1..Len(before.info) : after.info[i] = before.info[i]

\* C31: no step of new_es_module, new_json_module, alias,
\* register_and_recurse, load_dynamic_import or resolve_callback removes or
\* modifies an entry of handles or info, so a ModuleId denotes the same
\* ModuleInfo for the rest of the life of the registry.
C31_ModulesPersist ==
  [][module_map' # module_map => ModulesKept(module_map, module_map')]_vars

\* A module was registered in a registry that held a module already, and the
\* first module still has id 0.
C31_Witness ==
  /\ last_call.called
  /\ last_call.outcome = "ok"
  /\ Len(last_call.before.info) >= 1
  /\ Len(module_map.info) > Len(last_call.before.info)
  /\ module_map.info[1] = last_call.before.info[1]

\* ------------------------------------------------------------------------
\* C32: load ids
\* ------------------------------------------------------------------------

\* The step creates a load.
LoadCreated == loads' # loads /\ DOMAIN loads' # DOMAIN loads

\* The load of the step received the current next_load_id, which is larger
\* than the id of every earlier load and not a key of dynamic_import_map,
\* and next_load_id went up by one.
FreshLoadId ==
  \E id \in DOMAIN loads' \ DOMAIN loads :
    /\ DOMAIN loads' = DOMAIN loads \cup {id}
    /\ id = module_map.next_load_id
    /\ loads'[id].id = id
    /\ module_map'.next_load_id = id + 1
    /\ \A other \in DOMAIN loads : loads[other].id < id /\ loads'[other] = loads[other]
    /\ id \notin module_map.dynamic_import_map
    /\ module_map.dynamic_import_map \subseteq module_map'.dynamic_import_map

\* C32: a new registry has next_load_id = 1; every load that is created, of
\* any kind and whether its root resolves or not, receives the current
\* next_load_id and increments it by one, so load ids are pairwise distinct
\* and increase in creation order, and a later load never takes the
\* dynamic_import_map entry of an earlier one.
C32_LoadIdsIncrease ==
  [][/\ loads = <<>> => module_map.next_load_id = 1
     /\ LoadCreated => FreshLoadId
     /\ ~LoadCreated => module_map'.next_load_id = module_map.next_load_id]_vars

\* Two dynamic imports are on record in dynamic_import_map under the ids 1
\* and 2, and the root of the second does not resolve.
C32_Witness ==
  /\ module_map.next_load_id = 3
  /\ module_map.dynamic_import_map = {1, 2}
  /\ ~resolve_root(loads[2]).ok
  /\ loads[1].id = 1 /\ loads[2].id = 2

\* ------------------------------------------------------------------------
\* C33: the requests of a module
\* ------------------------------------------------------------------------

\* The request an import of the module `name` stands for: its specifier
\* resolved with the module's name as the referrer, and Json for the
\* assertion type: "json", JavaScriptOrWasm otherwise.
RequestOfImport(import, name) ==
  [specifier |->
     resolve_helper(snapshot_loaded_and_not_snapshotting, import.specifier,
                    name).specifier,
   asserted_module_type |->
     IF "type" \in DOMAIN import.assertions /\ import.assertions["type"] = "json"
       THEN "Json" ELSE "JavaScriptOrWasm"]

\* C33: the requests of a module that new_es_module has registered are one
\* per import of the module, in the order of the imports, each the resolved
\* specifier of the import with the asserted type of its assertions.
C33_RequestsFollowImports ==
  (ModuleCreated /\ last_call.fn = "new_es_module") =>
    LET imports == last_call.source.code.imports
        info == get_info_by_id(module_map, last_call.module_id)
    IN /\ info.name = last_call.request.specifier
       /\ Len(info.requests) = Len(imports)
       /\ \A i \in 1..Len(imports) :
            info.requests[i] = RequestOfImport(imports[i], info.name)

\* new_es_module has registered a module with two imports of different
\* asserted types.
C33_Witness ==
  /\ ModuleCreated /\ last_call.fn = "new_es_module"
  /\ Len(last_call.source.code.imports) = 2
  /\ get_info_by_id(module_map, last_call.module_id).requests =
       <<ModuleRequest("b", "Json"), ModuleRequest("a", "JavaScriptOrWasm")>>

\* ------------------------------------------------------------------------
\* C34: json_value_store
\* ------------------------------------------------------------------------

\* The handles of the registered JSON modules that were not evaluated.
UnevaluatedJson(mm) ==
  {handle \in Range(mm.handles) :
     /\ get_info_by_id(mm, handle).module_type = "Json"
     /\ handle \notin mm.evaluated}

\* C34: in every reachable state json_value_store has an entry for a handle
\* iff the handle is that of a registered JSON module that has not been
\* evaluated yet.
C34_StoreHoldsUnevaluatedJson ==
  module_map.json_value_store = UnevaluatedJson(module_map)

\* ------------------------------------------------------------------------
\* C35: the order of the registrations of a load
\* ------------------------------------------------------------------------

\* The step is a successful register_and_recurse call of load id that has
\* registered a new module.
RegistersModule(id) ==
  /\ RegisteredOk(id)
  /\ Len(module_map'.info) > Len(module_map.info)

\* The modules of the registry that import the request.
ImportersIn(mm, request) ==
  {i \in 1..Len(mm.info) : request \in Range(mm.info[i].requests)}

\* C35: in a load whose root is not registered when the load is created,
\* the root is registered first: a module the load registers for its root
\* request becomes the root of the load, a module it registers later has a
\* larger ModuleId than the root, and such a module is registered only when
\* a registered module imports its request.
C35_RootRegisteredFirst ==
  [][\A id \in LoadIds :
       (RegistersModule(id) /\ ~RegisteredAtCreation(loads[id])) =>
          LET new_id == Len(module_map.info) IN
          IF loads[id].state = "LoadingRoot"
            THEN /\ last_call'.request = RootRequest(loads[id])
                 /\ loads'[id].root_module_id = new_id
                 /\ loads[id].visited = {}
            ELSE /\ loads[id].state = "LoadingImports"
                 /\ loads[id].root_module_id # NoId
                 /\ loads[id].root_module_id < new_id
                 /\ ImportersIn(module_map, last_call'.request) # {}]_vars

\* A load whose root was not registered at its creation has registered a
\* module other than its root.
C35_Witness ==
  /\ last_call.called /\ last_call.fn = "register_and_recurse"
  /\ last_call.outcome = "ok"
  /\ Len(module_map.info) > Len(last_call.before.info)
  /\ last_call.id \in LoadIds
  /\ ~RegisteredAtCreation(loads[last_call.id])
  /\ loads[last_call.id].root_module_id # NoId
  /\ loads[last_call.id].root_module_id < Len(last_call.before.info)
  /\ last_call.request # RootRequest(loads[last_call.id])

\* ------------------------------------------------------------------------
\* C36: borrows of the module map
\* ------------------------------------------------------------------------

\* C36: no borrow of the module map spans a suspension point and no borrow
\* fails: between the steps of the loads (unless a get_id call loops for
\* ever) no Ref and no RefMut is alive, whatever the interleaving of the
\* starts of loads, of their polls under the poller's borrow and of their
\* register_and_recurse calls.
C36_NoBorrowAcrossSuspension ==
  /\ ~cell.failed
  /\ ~hung => cell = Unborrowed

\* A dynamic import was polled under the poller's borrow and its module
\* registered after a second dynamic import was started.
C36_Witness ==
  /\ last_call.called /\ last_call.fn = "register_and_recurse"
  /\ last_call.outcome = "ok"
  /\ last_call.id = 1
  /\ is_dynamic_import(loads[1])
  /\ Len(module_map.info) > Len(last_call.before.info)
  /\ 2 \in LoadIds /\ is_dynamic_import(loads[2])
  /\ cell = Unborrowed

\* ------------------------------------------------------------------------
\* C37: names and ids
\* ------------------------------------------------------------------------

\* C37: every registered module is found under its own name: get_id of the
\* name and of the asserted type of the module type of info[id] is id, for
\* every id of the registry.
C37_NameFindsModule ==
  \A i \in 1..Len(module_map.info) :
    get_id(module_map, module_map.info[i].name,
           AmtFromModuleType(module_map.info[i].module_type))
      = module_map.info[i].id

\* ------------------------------------------------------------------------
\* C38: the pending fetches of a load that is loading
\* ------------------------------------------------------------------------

\* The load is polled by its driver, and every item it has yielded was
\* passed to register_and_recurse, which returned Ok.
AllItemsRegistered(id) == phase[id] = "streaming" /\ ~hung

\* C38: a load in LoadingRoot or LoadingImports whose items were all passed
\* to register_and_recurse successfully has a fetch pending, so poll_next
\* does not find the pending set exhausted in these states.
C38_LoadingHasPending ==
  \A id \in LoadIds :
    (AllItemsRegistered(id) /\ loads[id].state \in {"LoadingRoot", "LoadingImports"})
      => loads[id].pending # {}

\* A register_and_recurse call has returned Ok and left its load in
\* LoadingImports, with a fetch pending.
C38_Witness ==
  /\ last_call.called /\ last_call.fn = "register_and_recurse"
  /\ last_call.outcome = "ok"
  /\ last_call.id \in LoadIds
  /\ AllItemsRegistered(last_call.id)
  /\ loads[last_call.id].state = "LoadingImports"
  /\ loads[last_call.id].pending # {}

\* ------------------------------------------------------------------------
\* C39: the main flag
\* ------------------------------------------------------------------------

\* The step is the register_and_recurse call of a load_main load in
\* LoadingRoot that compiled the ES module with the given id, which is the
\* root of the load when the call returns.
CompiledAsMainRoot(module_id) ==
  /\ last_call'.called /\ last_call'.fn = "register_and_recurse"
  /\ last_call'.id \in LoadIds
  /\ loads[last_call'.id].init.kind = "Main"
  /\ loads[last_call'.id].state = "LoadingRoot"
  /\ last_call'.source.module_type = "JavaScript"
  /\ module_map'.info[module_id + 1].module_type = "JavaScript"
  /\ last_call'.outcome = "ok" => loads'[last_call'.id].root_module_id = module_id

\* C39: a module gets main = true only when it is compiled as the root of a
\* load_main load in LoadingRoot; modules registered as imports, JSON
\* modules and the modules of side loads and dynamic imports get main =
\* false, and no step changes the main flag of a registered module, a main
\* load of a registered root included.
C39_MainOnlyForMainRoot ==
  [][module_map'.info # module_map.info =>
       /\ Len(module_map'.info) >= Len(module_map.info)
       /\ \A i \in 1..Len(module_map.info) :
            module_map'.info[i].main = module_map.info[i].main
       /\ \A i \in (Len(module_map.info) + 1)..Len(module_map'.info) :
            module_map'.info[i].main => CompiledAsMainRoot(i - 1)]_vars

\* A load_main load has registered its root with main = true and then an
\* import with main = false, and a second load_main load, of a registered
\* root, has made its call.
C39_Witness ==
  /\ last_call.called /\ last_call.fn = "register_and_recurse"
  /\ last_call.outcome = "ok"
  /\ last_call.id = 2
  /\ loads[2].init.kind = "Main" /\ RegisteredAtCreation(loads[2])
  /\ loads[1].init.kind = "Main"
  /\ Cardinality(MainModules(module_map)) = 1
  /\ \E i \in 1..Len(module_map.info) : ~module_map.info[i].main
  /\ module_map.info = last_call.before.info

\* ------------------------------------------------------------------------
\* C40: a source of the wrong type
\* ------------------------------------------------------------------------

\* The module type of the source is not the one the request asserts.
WrongType(module_request, module_source) ==
  (module_request.asserted_module_type = "Json") # (module_source.module_type = "Json")

\* The step is a register_and_recurse call of load id for a source of the
\* wrong type.
WrongTypeCall(id) ==
  /\ last_call'.called
  /\ last_call'.fn = "register_and_recurse"
  /\ last_call'.id = id
  /\ WrongType(last_call'.request, last_call'.source)

\* C40: a register_and_recurse call for a source whose type does not match
\* the asserted type of the request fails and changes nothing: by_name,
\* handles and info are as before (no alias is installed), and so are the
\* visited set, the pending set, the state and the root_module_id of the
\* load.
C40_WrongTypeChangesNothing ==
  [][\A id \in LoadIds :
       WrongTypeCall(id) =>
         \E fetch \in loads[id].pending :
           /\ fetch.request = last_call'.request
           /\ LET polled == [loads[id] EXCEPT !.pending = @ \ {fetch}]
                  r == register_and_recurse(module_map, polled,
                                            last_call'.request, last_call'.source)
              IN /\ r.outcome = "err"
                 /\ r.mm = module_map
                 /\ r.load = polled
           /\ last_call'.outcome = "err"
           /\ module_map'.by_name = module_map.by_name
           /\ module_map'.handles = module_map.handles
           /\ module_map'.info = module_map.info]_vars

\* A call has failed for a source of the wrong type that was found under
\* another name than the one requested, in a registry that holds a module,
\* and no alias was installed.
C40_Witness ==
  /\ last_call.called /\ last_call.fn = "register_and_recurse"
  /\ WrongType(last_call.request, last_call.source)
  /\ last_call.outcome = "err"
  /\ last_call.source.module_url_specified # last_call.source.module_url_found
  /\ last_call.before.info # <<>>
  /\ module_map.by_name = last_call.before.by_name

====
